---- MODULE Spec2Model ----
(***************************************************************************)
(* Model of the BAIS onboarding core: BAISFormValidator.validateComplete   *)
(* (assets/js/core/botProtection.js) and FormDataTransformer               *)
(* (transformToAPIFormat / transformFromAPIFormat), together with the      *)
(* caller that owns the configuration and edits it field by field.         *)
(*                                                                         *)
(* JavaScript values are records [k, n, s, a]: k is the typeof-like kind,  *)
(* n the number (or 0/1 for a boolean), s the string as a sequence of      *)
(* one-character strings, a the array of strings.  A property that is      *)
(* missing from an object reads as undefined in JavaScript and is dropped  *)
(* by JSON.stringify, so "absent" and "undefined" are the same value here. *)
(***************************************************************************)
EXTENDS Integers, Sequences, FiniteSets, TLC

VARIABLES formState, pc, applied, validation, payload, restored, original, pushed,
          validatorErrors, returned,
          isSubmitting, outstanding, runs, serviceConfigurators

vars == <<formState, pc, applied, validation, payload, restored, original, pushed,
         validatorErrors, returned,
         isSubmitting, outstanding, runs, serviceConfigurators>>

\* the fields of BAISOnboardingForm beside formState: the submit guard, the
\* submitToAPI calls that have not settled, the handleSubmit runs so far and
\* the configurators of the services
formVars == <<isSubmitting, outstanding, runs, serviceConfigurators>>

\* initializeServiceConfigurators: one configurator per service, made with the
\* index of the service (counted from 0)
initializeServiceConfigurators(services) ==
  [i \in 1..Len(services) |-> [serviceIndex |-> i - 1]]

\* the constructor of BAISOnboardingForm and its initialize()
InitForm ==
  /\ isSubmitting = FALSE
  /\ outstanding = <<>>
  /\ runs = <<>>
  /\ serviceConfigurators = initializeServiceConfigurators(formState.services)

----------------------------------------------------------------------------
(* JavaScript values *)

Undefined == [k |-> "undefined", n |-> 0, s |-> <<>>, a |-> <<>>]

Null == [k |-> "null", n |-> 0, s |-> <<>>, a |-> <<>>]

Num(x) == [k |-> "number", n |-> x, s |-> <<>>, a |-> <<>>]

Str(x) == [k |-> "string", n |-> 0, s |-> x, a |-> <<>>]

Bool(b) == [k |-> "boolean", n |-> IF b THEN 1 ELSE 0, s |-> <<>>, a |-> <<>>]

Arr(x) == [k |-> "array", n |-> 0, s |-> <<>>, a |-> x]

\* parseInt or parseFloat of an input that holds no number
NaN == [k |-> "NaN", n |-> 0, s |-> <<>>, a |-> <<>>]

\* ToBoolean: undefined, null, 0, '' and false are falsy; every array is truthy.
Truthy(v) ==
  CASE v.k = "undefined" -> FALSE
    [] v.k = "null" -> FALSE
    [] v.k = "number" -> v.n # 0
    [] v.k = "NaN" -> FALSE
    [] v.k = "string" -> v.s # <<>>
    [] v.k = "boolean" -> v.n = 1
    [] OTHER -> TRUE

\* a || b
OrElse(v, d) == IF Truthy(v) THEN v ELSE d

\* v !== undefined
IsDefined(v) == v.k # "undefined"

\* v !== false
NotFalse(v) == ~(v.k = "boolean" /\ v.n = 0)

\* typeof v === 'number'
IsNumber(v) == v.k = "number"

\* Relational operators convert with ToNumber: null and false are 0, true is 1,
\* undefined is NaN and every comparison with NaN is false.
IsNaN(v) == v.k \notin {"number", "null", "boolean"}

JsLt(v, m) == ~IsNaN(v) /\ v.n < m

JsGt(v, m) == ~IsNaN(v) /\ v.n > m

\* v < lo || v > hi
OutOfRange(v, lo, hi) == JsLt(v, lo) \/ JsGt(v, hi)

----------------------------------------------------------------------------
(* Strings *)

Digits == {"0", "1", "2", "3", "4", "5", "6", "7", "8", "9"}

LowerSeq == <<"a", "b", "c", "d", "e", "f", "g", "h", "i", "j", "k", "l", "m",
              "n", "o", "p", "q", "r", "s", "t", "u", "v", "w", "x", "y", "z">>

UpperSeq == <<"A", "B", "C", "D", "E", "F", "G", "H", "I", "J", "K", "L", "M",
              "N", "O", "P", "Q", "R", "S", "T", "U", "V", "W", "X", "Y", "Z">>

Lower == {LowerSeq[i] : i \in 1..26}

Upper == {UpperSeq[i] : i \in 1..26}

IsDigit(ch) == ch \in Digits

Rep(ch, n) == [i \in 1..n |-> ch]

StartsWith(s, p) == Len(s) >= Len(p) /\ SubSeq(s, 1, Len(p)) = p

EndsWith(s, p) == Len(s) >= Len(p) /\ SubSeq(s, Len(s) - Len(p) + 1, Len(s)) = p

Includes(s, p) == \E i \in 1..(Len(s) - Len(p) + 1) : SubSeq(s, i, i + Len(p) - 1) = p

AllIn(s, set) == \A i \in 1..Len(s) : s[i] \in set

----------------------------------------------------------------------------
(* Domain schema (core/constants.js) *)

\* Object.values(BUSINESS_TYPES)
BUSINESS_TYPES ==
  {<<"h", "o", "s", "p", "i", "t", "a", "l", "i", "t", "y">>,
   <<"f", "o", "o", "d", "_", "s", "e", "r", "v", "i", "c", "e">>,
   <<"r", "e", "t", "a", "i", "l">>,
   <<"h", "e", "a", "l", "t", "h", "c", "a", "r", "e">>,
   <<"f", "i", "n", "a", "n", "c", "e">>,
   <<"p", "r", "o", "f", "e", "s", "s", "i", "o", "n", "a", "l", "_", "s", "e", "r", "v", "i", "c", "e", "s">>,
   <<"e", "d", "u", "c", "a", "t", "i", "o", "n">>,
   <<"t", "e", "c", "h", "n", "o", "l", "o", "g", "y">>,
   <<"c", "r", "e", "a", "t", "i", "v", "e">>,
   <<"o", "t", "h", "e", "r">>}

\* Object.values(WORKFLOW_PATTERNS)
WORKFLOW_PATTERNS ==
  {<<"b", "o", "o", "k", "i", "n", "g", "_", "c", "o", "n", "f", "i", "r", "m", "a", "t", "i", "o", "n", "_", "p", "a", "y", "m", "e", "n", "t">>,
   <<"r", "e", "q", "u", "e", "s", "t", "_", "a", "p", "p", "r", "o", "v", "a", "l", "_", "p", "a", "y", "m", "e", "n", "t">>,
   <<"i", "n", "s", "t", "a", "n", "t", "_", "p", "u", "r", "c", "h", "a", "s", "e">>,
   <<"q", "u", "o", "t", "e", "_", "n", "e", "g", "o", "t", "i", "a", "t", "i", "o", "n", "_", "c", "o", "n", "t", "r", "a", "c", "t">>}

T_STRING == <<"s", "t", "r", "i", "n", "g">>

T_INTEGER == <<"i", "n", "t", "e", "g", "e", "r">>

T_NUMBER == <<"n", "u", "m", "b", "e", "r">>

T_ARRAY == <<"a", "r", "r", "a", "y">>

\* Object.values(PARAMETER_TYPES)
PARAMETER_TYPES ==
  {T_STRING, T_INTEGER, T_NUMBER, T_ARRAY,
   <<"b", "o", "o", "l", "e", "a", "n">>,
   <<"o", "b", "j", "e", "c", "t">>,
   <<"d", "a", "t", "e">>,
   <<"d", "a", "t", "e", "t", "i", "m", "e">>,
   <<"t", "i", "m", "e">>}

\* Object.values(CANCELLATION_POLICY_TYPES)
CANCELLATION_POLICY_TYPES ==
  {<<"f", "l", "e", "x", "i", "b", "l", "e">>,
   <<"m", "o", "d", "e", "r", "a", "t", "e">>,
   <<"s", "t", "r", "i", "c", "t">>,
   <<"n", "o", "n", "_", "r", "e", "f", "u", "n", "d", "a", "b", "l", "e">>}

CREDIT_CARD == <<"c", "r", "e", "d", "i", "t", "_", "c", "a", "r", "d">>

\* Object.values(PAYMENT_METHODS)
PAYMENT_METHODS ==
  {CREDIT_CARD,
   <<"d", "e", "b", "i", "t", "_", "c", "a", "r", "d">>,
   <<"b", "a", "n", "k", "_", "t", "r", "a", "n", "s", "f", "e", "r">>,
   <<"d", "i", "g", "i", "t", "a", "l", "_", "w", "a", "l", "l", "e", "t">>,
   <<"c", "r", "y", "p", "t", "o", "c", "u", "r", "r", "e", "n", "c", "y">>,
   <<"b", "u", "y", "_", "n", "o", "w", "_", "p", "a", "y", "_", "l", "a", "t", "e", "r">>,
   <<"c", "a", "s", "h">>,
   <<"c", "h", "e", "c", "k">>}

AT_BOOKING == <<"a", "t", "_", "b", "o", "o", "k", "i", "n", "g">>

\* Object.values(PAYMENT_TIMING)
PAYMENT_TIMING ==
  {AT_BOOKING,
   <<"o", "n", "_", "a", "r", "r", "i", "v", "a", "l">>,
   <<"a", "f", "t", "e", "r", "_", "s", "e", "r", "v", "i", "c", "e">>,
   <<"d", "e", "p", "o", "s", "i", "t", "_", "t", "h", "e", "n", "_", "b", "a", "l", "a", "n", "c", "e">>}

BOOKING_CONFIRMED == <<"b", "o", "o", "k", "i", "n", "g", "_", "c", "o", "n", "f", "i", "r", "m", "e", "d">>

PAYMENT_PROCESSED == <<"p", "a", "y", "m", "e", "n", "t", "_", "p", "r", "o", "c", "e", "s", "s", "e", "d">>

BOOKING_CANCELLED == <<"b", "o", "o", "k", "i", "n", "g", "_", "c", "a", "n", "c", "e", "l", "l", "e", "d">>

\* Object.values(WEBHOOK_EVENTS)
WEBHOOK_EVENTS ==
  {BOOKING_CONFIRMED, PAYMENT_PROCESSED, BOOKING_CANCELLED,
   <<"b", "o", "o", "k", "i", "n", "g", "_", "m", "o", "d", "i", "f", "i", "e", "d">>,
   <<"p", "a", "y", "m", "e", "n", "t", "_", "f", "a", "i", "l", "e", "d">>,
   <<"p", "a", "y", "m", "e", "n", "t", "_", "r", "e", "f", "u", "n", "d", "e", "d">>,
   <<"s", "e", "r", "v", "i", "c", "e", "_", "s", "t", "a", "r", "t", "e", "d">>,
   <<"s", "e", "r", "v", "i", "c", "e", "_", "c", "o", "m", "p", "l", "e", "t", "e", "d">>}

\* the codes of COUNTRIES
COUNTRIES ==
  {<<"U", "S">>,
   <<"C", "A">>,
   <<"G", "B">>,
   <<"A", "U">>,
   <<"D", "E">>,
   <<"F", "R">>,
   <<"I", "T">>,
   <<"E", "S">>,
   <<"N", "L">>,
   <<"S", "E">>,
   <<"N", "O">>,
   <<"D", "K">>,
   <<"F", "I">>,
   <<"I", "E">>,
   <<"J", "P">>,
   <<"C", "N">>,
   <<"I", "N">>,
   <<"B", "R">>,
   <<"M", "X">>}

DEFAULT_COUNTRY == <<"U", "S">>

DEFAULT_TIMEZONE == <<"U", "T", "C">>

DEFAULT_CURRENCY == <<"U", "S", "D">>

SECURE_TOKENIZED == <<"s", "e", "c", "u", "r", "e", "_", "t", "o", "k", "e", "n", "i", "z", "e", "d">>

BUSINESS_NAME_MAX_LENGTH == 255

BUSINESS_DESCRIPTION_MAX_LENGTH == 1000

SERVICE_NAME_MAX_LENGTH == 100

SERVICE_ID_MAX_LENGTH == 100

SERVICE_DESCRIPTION_MAX_LENGTH == 500

PARAMETER_NAME_MAX_LENGTH == 100

PARAMETER_DESCRIPTION_MAX_LENGTH == 500

CANCELLATION_DESCRIPTION_MIN_LENGTH == 10

CANCELLATION_DESCRIPTION_MAX_LENGTH == 500

DEPOSIT_PERCENTAGE_MAX == 100

ADVANCE_BOOKING_DAYS_MIN == 1

ADVANCE_BOOKING_DAYS_MAX == 730

CACHE_TIMEOUT_SECONDS_MAX == 3600

FREE_CANCELLATION_HOURS_MAX == 168

PENALTY_PERCENTAGE_MAX == 100

MAX_SERVICES == 20

MAX_PARAMETERS_PER_SERVICE == 50

MAX_WORKFLOW_STEPS == 10

----------------------------------------------------------------------------
(* BAISFormValidator: helpers *)

\* An entry of this.errors.  The JavaScript message is the prefix
\* ("Service i", "Service i, Step j", "Service i, Parameter j"), the fixed text
\* msg and the interpolated value arg.
Err(m) == [msg |-> m, svc |-> 0, kind |-> "", sub |-> 0, arg |-> <<>>]

ErrArg(m, x) == [msg |-> m, svc |-> 0, kind |-> "", sub |-> 0, arg |-> x]

\* pre is the prefix of a service, of one of its steps or of one of its parameters
InService(i) == [svc |-> i, kind |-> "", sub |-> 0]

InStep(i, j) == [svc |-> i, kind |-> "Step", sub |-> j]

InParameter(i, j) == [svc |-> i, kind |-> "Parameter", sub |-> j]

ErrAt(pre, m) == [msg |-> m, svc |-> pre.svc, kind |-> pre.kind, sub |-> pre.sub, arg |-> <<>>]

ErrAtArg(pre, m, x) == [msg |-> m, svc |-> pre.svc, kind |-> pre.kind, sub |-> pre.sub, arg |-> x]

\* if (cond) this.addError(e)
addError(cond, e) == IF cond THEN <<e>> ELSE <<>>

RECURSIVE Concat(_)
Concat(ss) == IF ss = <<>> THEN <<>> ELSE Head(ss) \o Concat(Tail(ss))

isRequiredString(value) ==
  value.k = "string" /\ \E i \in 1..Len(value.s) : value.s[i] # " "

\* isValidString had it asked for more than MIN_LENGTH characters
isValidStringAbove(value, rules) ==
  IF rules.REQUIRED /\ ~isRequiredString(value) THEN FALSE
  ELSE IF Truthy(value) /\ Len(value.s) <= rules.MIN_LENGTH THEN FALSE
  ELSE IF Truthy(value) /\ Len(value.s) > rules.MAX_LENGTH THEN FALSE
  ELSE TRUE

\* rules = [REQUIRED, MIN_LENGTH, MAX_LENGTH]
isValidString(value, rules) ==
  IF rules.REQUIRED /\ ~isRequiredString(value) THEN FALSE
  ELSE IF Truthy(value) /\ Len(value.s) < rules.MIN_LENGTH THEN FALSE
  ELSE IF Truthy(value) /\ Len(value.s) > rules.MAX_LENGTH THEN FALSE
  ELSE TRUE

BUSINESS_NAME == [REQUIRED |-> TRUE, MIN_LENGTH |-> 1, MAX_LENGTH |-> BUSINESS_NAME_MAX_LENGTH]

SERVICE_NAME == [REQUIRED |-> TRUE, MIN_LENGTH |-> 1, MAX_LENGTH |-> SERVICE_NAME_MAX_LENGTH]

SERVICE_ID == [REQUIRED |-> TRUE, MIN_LENGTH |-> 1, MAX_LENGTH |-> SERVICE_ID_MAX_LENGTH]

SERVICE_DESCRIPTION == [REQUIRED |-> TRUE, MIN_LENGTH |-> 1, MAX_LENGTH |-> SERVICE_DESCRIPTION_MAX_LENGTH]

PARAMETER_NAME == [REQUIRED |-> TRUE, MIN_LENGTH |-> 1, MAX_LENGTH |-> PARAMETER_NAME_MAX_LENGTH]

PARAMETER_DESCRIPTION == [REQUIRED |-> TRUE, MIN_LENGTH |-> 1, MAX_LENGTH |-> PARAMETER_DESCRIPTION_MAX_LENGTH]

CANCELLATION_POLICY_DESCRIPTION ==
  [REQUIRED |-> TRUE, MIN_LENGTH |-> CANCELLATION_DESCRIPTION_MIN_LENGTH,
   MAX_LENGTH |-> CANCELLATION_DESCRIPTION_MAX_LENGTH]

\* /^[a-z0-9_]+$/
SERVICE_ID_PATTERN(s) == Len(s) >= 1 /\ AllIn(s, Lower \cup Digits \cup {"_"})

\* /^[a-z_][a-z0-9_]*$/
PARAMETER_NAME_PATTERN(s) ==
  /\ Len(s) >= 1
  /\ s[1] \in Lower \cup {"_"}
  /\ AllIn(s, Lower \cup Digits \cup {"_"})

\* /^[^@]+@[^@]+\.[^@]+$/
EMAIL_PATTERN(s) ==
  \E i \in 2..Len(s) :
    /\ s[i] = "@"
    /\ \A h \in 1..Len(s) : s[h] = "@" => h = i
    /\ \E j \in (i + 2)..(Len(s) - 1) : s[j] = "."

\* /^\+?[1-9]\d{1,14}$/
PHONE_PATTERN(s) ==
  LET t == IF Len(s) >= 1 /\ s[1] = "+" THEN Tail(s) ELSE s
  IN  /\ Len(t) >= 2
      /\ Len(t) <= 15
      /\ t[1] \in Digits \ {"0"}
      /\ AllIn(t, Digits)

isValidEmail(email) == IF ~Truthy(email) THEN FALSE ELSE EMAIL_PATTERN(email.s)

isValidPhone(phone) == IF ~Truthy(phone) THEN TRUE ELSE PHONE_PATTERN(phone.s)

\* new URL(url) for the strings of this model: a scheme (a letter, then letters,
\* digits, '+', '-' or '.') up to the first ':'; for http and https the slashes
\* after the scheme are skipped and the host that follows, up to the next '/',
\* '?' or '#', is non-empty and holds none of the forbidden host code points.
SchemeEnd(s) ==
  IF \E i \in 1..Len(s) : s[i] = ":"
  THEN CHOOSE i \in 1..Len(s) : s[i] = ":" /\ \A h \in 1..(i - 1) : s[h] # ":"
  ELSE 0

RECURSIVE SkipSlashes(_)
SkipSlashes(s) == IF s # <<>> /\ Head(s) \in {"/", "\\"} THEN SkipSlashes(Tail(s)) ELSE s

RECURSIVE HostOf(_)
HostOf(s) ==
  IF s = <<>> \/ Head(s) \in {"/", "\\", "?", "#"} THEN <<>>
  ELSE <<Head(s)>> \o HostOf(Tail(s))

URLParses(s) ==
  LET e == SchemeEnd(s)
      scheme == SubSeq(s, 1, e - 1)
      rest == SubSeq(s, e + 1, Len(s))
      host == HostOf(SkipSlashes(rest))
  IN  /\ e >= 2
      /\ scheme[1] \in Lower \cup Upper
      /\ AllIn(scheme, Lower \cup Upper \cup Digits \cup {"+", "-", "."})
      /\ scheme \in {<<"h", "t", "t", "p">>, <<"h", "t", "t", "p", "s">>}
           => host # <<>> /\ AllIn(host, Lower \cup Digits \cup {".", "-", "_"})

isValidURL(url) ==
  IF ~Truthy(url) THEN FALSE
  ELSE IF URLParses(url.s)
       THEN StartsWith(url.s, <<"h", "t", "t", "p", ":", "/", "/">>)
            \/ StartsWith(url.s, <<"h", "t", "t", "p", "s", ":", "/", "/">>)
       ELSE FALSE

isValidCoordinates(coordinates) ==
  IF coordinates.k # "object" THEN FALSE
  ELSE IF ~IsNumber(coordinates.latitude) \/ ~IsNumber(coordinates.longitude) THEN FALSE
  ELSE /\ coordinates.latitude.n >= -90
       /\ coordinates.latitude.n <= 90
       /\ coordinates.longitude.n >= -180
       /\ coordinates.longitude.n <= 180

\* new RegExp(pattern) throws a SyntaxError, for the patterns of this model, on
\* an unbalanced group or class or on a quantifier with nothing to repeat.
RECURSIVE Depth(_, _, _)
Depth(s, open, close) ==
  IF s = <<>> THEN 0
  ELSE (IF Head(s) = open THEN 1 ELSE IF Head(s) = close THEN -1 ELSE 0)
       + Depth(Tail(s), open, close)

RegExpCompiles(s) ==
  /\ Depth(s, "(", ")") = 0
  /\ Depth(s, "[", "]") = 0
  /\ s # <<>> => s[1] \notin {"*", "+", "?", ")"}

----------------------------------------------------------------------------
(* BAISFormValidator: the sections.  Each operator is the sequence of       *)
(* messages the method pushes onto this.errors, in the order it pushes them *)

validateBusinessInfo(businessInfo) ==
  Concat(<<
    addError(~isValidString(businessInfo.name, BUSINESS_NAME),
             Err("Business name is required and must be 1-255 characters")),
    addError(~Truthy(businessInfo.type) \/ businessInfo.type.s \notin BUSINESS_TYPES,
             Err("Please select a valid business type")),
    addError(Truthy(businessInfo.website) /\ ~isValidURL(businessInfo.website),
             Err("Please enter a valid website URL")),
    addError(Truthy(businessInfo.description)
               /\ Len(businessInfo.description.s) > BUSINESS_DESCRIPTION_MAX_LENGTH,
             Err("Business description must be no more than 1000 characters")),
    addError(Truthy(businessInfo.capacity)
               /\ (~IsNumber(businessInfo.capacity) \/ businessInfo.capacity.n < 1),
             Err("Business capacity must be a positive integer"))
  >>)

validateLocation(location) ==
  Concat(<<
    addError(~isRequiredString(location.address), Err("Address is required")),
    addError(~isRequiredString(location.city), Err("City is required")),
    addError(~isRequiredString(location.state), Err("State/Province is required")),
    addError(~Truthy(location.country) \/ Len(location.country.s) # 2,
             Err("Please select a valid country")),
    addError(~isRequiredString(location.timezone), Err("Timezone is required")),
    addError(location.coordinates.k = "object" /\ ~isValidCoordinates(location.coordinates),
             Err("Invalid coordinates format"))
  >>)

validateContact(contact) ==
  Concat(<<
    addError(~isValidEmail(contact.email), Err("Please enter a valid email address")),
    addError(Truthy(contact.phone) /\ ~isValidPhone(contact.phone),
             Err("Please enter a valid phone number (e.g., +1-555-555-5555)")),
    addError(Truthy(contact.secondaryEmail) /\ ~isValidEmail(contact.secondaryEmail),
             Err("Secondary email must be a valid email address"))
  >>)

\* The else-if chain on service.id: the message it pushes, if any.
validateServiceId(service, prefix, serviceIds) ==
  IF ~isValidString(service.id, SERVICE_ID)
  THEN <<ErrAt(prefix, "Service ID is required (1-100 characters)")>>
  ELSE IF ~SERVICE_ID_PATTERN(service.id.s)
  THEN <<ErrAt(prefix, "Service ID must contain only lowercase letters, numbers, and underscores")>>
  ELSE IF service.id.s \in serviceIds
  THEN <<ErrAtArg(prefix, "Service ID is already used", service.id.s)>>
  ELSE <<>>

\* validateServiceBasics had it never recorded an id
serviceIdsForget(service, serviceIds) == serviceIds

\* serviceIds after validateServiceBasics(service, ...): the last branch adds the id.
serviceIdsAdd(service, serviceIds) ==
  IF isValidString(service.id, SERVICE_ID)
       /\ SERVICE_ID_PATTERN(service.id.s)
       /\ service.id.s \notin serviceIds
  THEN serviceIds \cup {service.id.s}
  ELSE serviceIds

validateServiceBasics(service, prefix, serviceIds) ==
  Concat(<<
    addError(~isValidString(service.name, SERVICE_NAME),
             ErrAt(prefix, "Service name is required (1-100 characters)")),
    validateServiceId(service, prefix, serviceIds),
    addError(~isValidString(service.description, SERVICE_DESCRIPTION),
             ErrAt(prefix, "Service description is required (1-500 characters)")),
    addError(~isRequiredString(service.category),
             ErrAt(prefix, "Service category is required"))
  >>)

validateStep(step, prefix) ==
  Concat(<<
    addError(~isRequiredString(step.name), ErrAt(prefix, "Step name is required")),
    addError(Truthy(step.timeoutMinutes) /\ OutOfRange(step.timeoutMinutes, 1, 1440),
             ErrAt(prefix, "Timeout must be between 1 and 1440 minutes")),
    addError(IsDefined(step.retryAttempts) /\ OutOfRange(step.retryAttempts, 0, 10),
             ErrAt(prefix, "Retry attempts must be between 0 and 10"))
  >>)

validateWorkflow(workflow, svc) ==
  IF workflow.k # "object"
  THEN <<ErrAt(InService(svc), "Workflow configuration is required")>>
  ELSE Concat(<<
    addError(~Truthy(workflow.pattern) \/ workflow.pattern.s \notin WORKFLOW_PATTERNS,
             ErrAt(InService(svc), "Please select a valid workflow pattern")),
    addError(Len(workflow.steps) > MAX_WORKFLOW_STEPS,
             ErrAt(InService(svc), "Maximum 10 workflow steps allowed")),
    Concat([j \in 1..Len(workflow.steps) |-> validateStep(workflow.steps[j], InStep(svc, j))])
  >>)

\* the range rules had they tested the two ends for truthiness
validateParameterConstraintsTruthy(param, prefix) ==
  IF param.constraints.k # "object" THEN <<>>
  ELSE LET constraints == param.constraints
           type == param.type
       IN Concat(<<
         addError(type.k = "string" /\ type.s \in {T_NUMBER, T_INTEGER}
                    /\ Truthy(constraints.minimum) /\ Truthy(constraints.maximum)
                    /\ constraints.minimum.n > constraints.maximum.n,
                  ErrAt(prefix, "Minimum cannot be greater than maximum")),
         addError(type.k = "string" /\ type.s = T_STRING
                    /\ Truthy(constraints.minLength) /\ Truthy(constraints.maxLength)
                    /\ constraints.minLength.n > constraints.maxLength.n,
                  ErrAt(prefix, "Minimum length cannot be greater than maximum length")),
         addError(type.k = "string" /\ type.s = T_STRING
                    /\ Truthy(constraints.pattern) /\ ~RegExpCompiles(constraints.pattern.s),
                  ErrAt(prefix, "Invalid regex pattern"))
       >>)

validateParameterConstraints(param, prefix) ==
  IF param.constraints.k # "object" THEN <<>>
  ELSE LET constraints == param.constraints
           type == param.type
       IN Concat(<<
         addError(type.k = "string" /\ type.s \in {T_NUMBER, T_INTEGER}
                    /\ IsDefined(constraints.minimum) /\ IsDefined(constraints.maximum)
                    /\ ~IsNaN(constraints.minimum) /\ ~IsNaN(constraints.maximum)
                    /\ constraints.minimum.n > constraints.maximum.n,
                  ErrAt(prefix, "Minimum cannot be greater than maximum")),
         addError(type.k = "string" /\ type.s = T_STRING
                    /\ IsDefined(constraints.minLength) /\ IsDefined(constraints.maxLength)
                    /\ ~IsNaN(constraints.minLength) /\ ~IsNaN(constraints.maxLength)
                    /\ constraints.minLength.n > constraints.maxLength.n,
                  ErrAt(prefix, "Minimum length cannot be greater than maximum length")),
         addError(type.k = "string" /\ type.s = T_STRING
                    /\ Truthy(constraints.pattern) /\ ~RegExpCompiles(constraints.pattern.s),
                  ErrAt(prefix, "Invalid regex pattern"))
       >>)

validateParameterPricing(pricing, prefix) ==
  Concat(<<
    addError(IsDefined(pricing.baseRate)
               /\ (~IsNumber(pricing.baseRate) \/ pricing.baseRate.n < 0),
             ErrAt(prefix, "Base rate must be a non-negative number")),
    addError(Truthy(pricing.currency) /\ Len(pricing.currency.s) # 3,
             ErrAt(prefix, "Currency must be a 3-character code (e.g., USD)")),
    addError(IsDefined(pricing.taxRate)
               /\ (~IsNumber(pricing.taxRate) \/ pricing.taxRate.n < 0 \/ pricing.taxRate.n > 1),
             ErrAt(prefix, "Tax rate must be between 0 and 1")),
    addError(IsDefined(pricing.serviceFee)
               /\ (~IsNumber(pricing.serviceFee) \/ pricing.serviceFee.n < 0),
             ErrAt(prefix, "Service fee must be a non-negative number"))
  >>)

\* The else-if chain on param.name: the message it pushes, if any.
validateParameterName(param, prefix, paramNames) ==
  IF ~isValidString(param.name, PARAMETER_NAME)
  THEN <<ErrAt(prefix, "Parameter name is required (1-100 characters)")>>
  ELSE IF ~PARAMETER_NAME_PATTERN(param.name.s)
  THEN <<ErrAt(prefix, "Parameter name must start with a letter and contain only lowercase letters, numbers, and underscores")>>
  ELSE IF param.name.s \in paramNames
  THEN <<ErrAtArg(prefix, "Parameter name is already used", param.name.s)>>
  ELSE <<>>

\* validateParameters had it never recorded a name
paramNamesForget(param, paramNames) == paramNames

paramNamesAdd(param, paramNames) ==
  IF isValidString(param.name, PARAMETER_NAME)
       /\ PARAMETER_NAME_PATTERN(param.name.s)
       /\ param.name.s \notin paramNames
  THEN paramNames \cup {param.name.s}
  ELSE paramNames

validateParameter(param, prefix, paramNames) ==
  Concat(<<
    validateParameterName(param, prefix, paramNames),
    addError(~Truthy(param.type) \/ param.type.s \notin PARAMETER_TYPES,
             ErrAt(prefix, "Please select a valid parameter type")),
    addError(~isValidString(param.description, PARAMETER_DESCRIPTION),
             ErrAt(prefix, "Description is required (1-500 characters)")),
    validateParameterConstraints(param, prefix),
    IF param.pricing.k = "object" THEN validateParameterPricing(param.pricing, prefix) ELSE <<>>
  >>)

\* paramNames once the first n parameters are walked
RECURSIVE paramNamesAfter(_, _)
paramNamesAfter(parameters, n) ==
  IF n = 0 THEN {}
  ELSE paramNamesAdd(parameters[n], paramNamesAfter(parameters, n - 1))

validateParameters(parameters, svc) ==
  IF Len(parameters) = 0
  THEN <<ErrAt(InService(svc), "At least one parameter is required")>>
  ELSE Concat(<<
    addError(Len(parameters) > MAX_PARAMETERS_PER_SERVICE,
             ErrAt(InService(svc), "Maximum 50 parameters allowed")),
    Concat([j \in 1..Len(parameters) |->
              validateParameter(parameters[j], InParameter(svc, j),
                                paramNamesAfter(parameters, j - 1))])
  >>)

validateAvailability(availability, prefix) ==
  IF availability.k # "object"
  THEN <<ErrAt(prefix, "Availability configuration is required")>>
  ELSE Concat(<<
    addError(IsDefined(availability.cacheTimeoutSeconds)
               /\ OutOfRange(availability.cacheTimeoutSeconds, 0, CACHE_TIMEOUT_SECONDS_MAX),
             ErrAt(prefix, "Cache timeout must be between 0 and 3600 seconds")),
    addError(IsDefined(availability.advanceBookingDays)
               /\ OutOfRange(availability.advanceBookingDays, ADVANCE_BOOKING_DAYS_MIN,
                             ADVANCE_BOOKING_DAYS_MAX),
             ErrAt(prefix, "Advance booking days must be between 1 and 730")),
    addError(Truthy(availability.endpoint) /\ ~isValidURL(availability.endpoint),
             ErrAt(prefix, "Availability endpoint must be a valid URL"))
  >>)

\* the cancellation rules had the penalty bounds been exclusive
validateCancellationPolicyExclusive(policy, prefix) ==
  IF policy.k # "object"
  THEN <<ErrAt(prefix, "Cancellation policy is required")>>
  ELSE Concat(<<
    addError(~Truthy(policy.type) \/ policy.type.s \notin CANCELLATION_POLICY_TYPES,
             ErrAt(prefix, "Please select a valid cancellation policy type")),
    addError(IsDefined(policy.freeUntilHours)
               /\ OutOfRange(policy.freeUntilHours, 0, FREE_CANCELLATION_HOURS_MAX),
             ErrAt(prefix, "Free cancellation hours must be between 0 and 168")),
    addError(IsDefined(policy.penaltyPercentage)
               /\ OutOfRange(policy.penaltyPercentage, 1, PENALTY_PERCENTAGE_MAX - 1),
             ErrAt(prefix, "Penalty percentage must be between 0 and 100")),
    addError(~isValidString(policy.description, CANCELLATION_POLICY_DESCRIPTION),
             ErrAt(prefix, "Cancellation policy description is required (10-500 characters)"))
  >>)

validateCancellationPolicy(policy, prefix) ==
  IF policy.k # "object"
  THEN <<ErrAt(prefix, "Cancellation policy is required")>>
  ELSE Concat(<<
    addError(~Truthy(policy.type) \/ policy.type.s \notin CANCELLATION_POLICY_TYPES,
             ErrAt(prefix, "Please select a valid cancellation policy type")),
    addError(IsDefined(policy.freeUntilHours)
               /\ OutOfRange(policy.freeUntilHours, 0, FREE_CANCELLATION_HOURS_MAX),
             ErrAt(prefix, "Free cancellation hours must be between 0 and 168")),
    addError(IsDefined(policy.penaltyPercentage)
               /\ OutOfRange(policy.penaltyPercentage, 0, PENALTY_PERCENTAGE_MAX),
             ErrAt(prefix, "Penalty percentage must be between 0 and 100")),
    addError(~isValidString(policy.description, CANCELLATION_POLICY_DESCRIPTION),
             ErrAt(prefix, "Cancellation policy description is required (10-500 characters)"))
  >>)

validatePaymentConfig(payment, prefix) ==
  IF payment.k # "object"
  THEN <<ErrAt(prefix, "Payment configuration is required")>>
  ELSE Concat(<<
    IF ~Truthy(payment.methods) \/ Len(payment.methods.a) = 0
    THEN <<ErrAt(prefix, "At least one payment method must be selected")>>
    ELSE Concat([m \in 1..Len(payment.methods.a) |->
                   addError(payment.methods.a[m] \notin PAYMENT_METHODS,
                            ErrAtArg(prefix, "Invalid payment method", payment.methods.a[m]))]),
    addError(~Truthy(payment.timing) \/ payment.timing.s \notin PAYMENT_TIMING,
             ErrAt(prefix, "Please select a valid payment timing")),
    addError(Truthy(payment.depositRequired) /\ IsDefined(payment.depositPercentage)
               /\ OutOfRange(payment.depositPercentage, 0, DEPOSIT_PERCENTAGE_MAX),
             ErrAt(prefix, "Deposit percentage must be between 0 and 100"))
  >>)

validateServicePolicies(policies, prefix) ==
  IF policies.k # "object" THEN <<>>
  ELSE Concat(<<
    addError(IsDefined(policies.modificationFee)
               /\ (~IsNumber(policies.modificationFee) \/ policies.modificationFee.n < 0),
             ErrAt(prefix, "Modification fee must be a non-negative number")),
    addError(IsDefined(policies.noShowPenalty)
               /\ (~IsNumber(policies.noShowPenalty) \/ policies.noShowPenalty.n < 0),
             ErrAt(prefix, "No-show penalty must be a non-negative number"))
  >>)

\* serviceIds once the first n services are walked
RECURSIVE serviceIdsAfter(_, _)
serviceIdsAfter(services, n) ==
  IF n = 0 THEN {}
  ELSE serviceIdsAdd(services[n], serviceIdsAfter(services, n - 1))

\* the body of services.forEach for the service at index + 1 = i
validateService(services, i) ==
  Concat(<<
    validateServiceBasics(services[i], InService(i), serviceIdsAfter(services, i - 1)),
    validateWorkflow(services[i].workflow, i),
    validateParameters(services[i].parameters, i),
    validateAvailability(services[i].availability, InService(i)),
    validateCancellationPolicy(services[i].cancellationPolicy, InService(i)),
    validatePaymentConfig(services[i].payment, InService(i)),
    validateServicePolicies(services[i].policies, InService(i))
  >>)

validateServices(services) ==
  IF Len(services) = 0
  THEN <<Err("At least one service must be defined")>>
  ELSE Concat(<<
    addError(Len(services) > MAX_SERVICES, Err("Maximum 20 services allowed")),
    Concat([i \in 1..Len(services) |-> validateService(services, i)])
  >>)

\* the endpoint rules had they not looked at autoGenerate
validateEndpointAlways(sub, url, required, shape, shapeOK) ==
  IF sub.k = "object"
  THEN IF ~Truthy(url) THEN <<Err(required)>>
       ELSE IF ~isValidURL(url) \/ ~shapeOK THEN <<Err(shape)>>
       ELSE <<>>
  ELSE <<>>

validateEndpoint(sub, url, required, shape, shapeOK) ==
  IF sub.k = "object" /\ ~Truthy(sub.autoGenerate)
  THEN IF ~Truthy(url) THEN <<Err(required)>>
       ELSE IF ~isValidURL(url) \/ ~shapeOK THEN <<Err(shape)>>
       ELSE <<>>
  ELSE <<>>

validateIntegration(integration) ==
  IF integration.k # "object" THEN <<>>
  ELSE Concat(<<
    validateEndpoint(integration.mcp, integration.mcp.endpoint,
      "MCP endpoint is required when auto-generate is disabled",
      "MCP endpoint must be a valid URL ending with /mcp",
      EndsWith(integration.mcp.endpoint.s, <<"/", "m", "c", "p">>)),
    validateEndpoint(integration.a2a, integration.a2a.discoveryUrl,
      "A2A discovery URL is required when auto-generate is disabled",
      "A2A discovery URL must be a valid URL containing /.well-known/agent.json",
      Includes(integration.a2a.discoveryUrl.s,
               <<"/", ".", "w", "e", "l", "l", "-", "k", "n", "o", "w", "n", "/",
                 "a", "g", "e", "n", "t", ".", "j", "s", "o", "n">>)),
    validateEndpoint(integration.webhooks, integration.webhooks.endpoint,
      "Webhook endpoint is required when auto-generate is disabled",
      "Webhook endpoint must be a valid URL", TRUE),
    IF integration.webhooks.k = "object" /\ Truthy(integration.webhooks.events)
    THEN Concat([e \in 1..Len(integration.webhooks.events.a) |->
                   addError(integration.webhooks.events.a[e] \notin WEBHOOK_EVENTS,
                            ErrArg("Invalid webhook event", integration.webhooks.events.a[e]))])
    ELSE <<>>
  >>)

\* validateAP2Config had it not looked at ap2.enabled
validateAP2ConfigUngated(ap2) ==
  IF ap2.k # "object" THEN <<>>
  ELSE addError(IsDefined(ap2.mandateExpiryHours) /\ OutOfRange(ap2.mandateExpiryHours, 1, 168),
                Err("AP2 mandate expiry must be between 1 and 168 hours"))

validateAP2Config(ap2) ==
  IF ap2.k # "object" \/ ~Truthy(ap2.enabled) THEN <<>>
  ELSE addError(IsDefined(ap2.mandateExpiryHours) /\ OutOfRange(ap2.mandateExpiryHours, 1, 168),
                Err("AP2 mandate expiry must be between 1 and 168 hours"))

\* validateComplete had it stopped at the first section with an error
validateErrorsFirstSection(fs) ==
  LET sections == <<
        validateBusinessInfo(fs.businessInfo),
        validateLocation(fs.location),
        validateContact(fs.contact),
        validateServices(fs.services),
        validateIntegration(fs.integration),
        validateAP2Config(fs.ap2)
      >>
      failing == {h \in 1..Len(sections) : sections[h] # <<>>}
  IN  IF failing = {} THEN <<>>
      ELSE sections[CHOOSE h \in failing : \A g \in failing : h <= g]

\* validateComplete had it validated the contact block first
validateErrorsContactFirst(fs) ==
  Concat(<<
    validateContact(fs.contact),
    validateBusinessInfo(fs.businessInfo),
    validateLocation(fs.location),
    validateServices(fs.services),
    validateIntegration(fs.integration),
    validateAP2Config(fs.ap2)
  >>)

\* this.errors once validateComplete has run
validateErrors(fs) ==
  Concat(<<
    validateBusinessInfo(fs.businessInfo),
    validateLocation(fs.location),
    validateContact(fs.contact),
    validateServices(fs.services),
    validateIntegration(fs.integration),
    validateAP2Config(fs.ap2)
  >>)

\* validateComplete had it left this.errors as the last call filled it
keepErrors(thisErrors) == thisErrors

\* this.errors = [] at the head of validateComplete
resetErrors(thisErrors) == <<>>

\* validateComplete on an instance whose this.errors holds thisErrors: the
\* result carries a copy of this.errors
validateCompleteOn(thisErrors, fs) ==
  LET pushedErrors == resetErrors(thisErrors) \o validateErrors(fs)
  IN  [isValid |-> Len(pushedErrors) = 0, errors |-> pushedErrors]

\* validateComplete on a new BAISFormValidator
validateComplete(fs) == validateCompleteOn(<<>>, fs)

----------------------------------------------------------------------------
(* FormDataTransformer: form state to wire format *)

\* substring had it returned the whole string
substringWhole(str, from, to) == str

\* str.substring(from, to) for 0 <= from <= to
substring(str, from, to) ==
  SubSeq(str, from + 1, IF Len(str) < to THEN Len(str) ELSE to)

sanitizeBusinessName(name) ==
  IF ~Truthy(name) THEN <<"b", "u", "s", "i", "n", "e", "s", "s">>
  ELSE LET toLowerCase(ch) ==
             IF ch \in Upper THEN LowerSeq[CHOOSE i \in 1..26 : UpperSeq[i] = ch] ELSE ch
           lowered == [i \in 1..Len(name.s) |-> toLowerCase(name.s[i])]
           ok(ch) == ch \in Lower \cup Digits
           \* replace(/[^a-z0-9]+/g, '-'): one hyphen where a run of other characters starts
           hyphened == [i \in 1..Len(lowered) |->
                          IF ok(lowered[i]) THEN lowered[i]
                          ELSE IF i > 1 /\ ~ok(lowered[i - 1]) THEN "" ELSE "-"]
           collapsed == SelectSeq(hyphened, LAMBDA ch : ch # "")
           \* replace(/^-+|-+$/g, ''): after the collapse a run is a single hyphen
           first == IF collapsed # <<>> /\ collapsed[1] = "-" THEN 2 ELSE 1
           last == IF Len(collapsed) >= first /\ collapsed[Len(collapsed)] = "-"
                   THEN Len(collapsed) - 1 ELSE Len(collapsed)
           trimmed == SubSeq(collapsed, first, last)
       IN  substring(trimmed, 0, 50)

sanitizePhone(phone) ==
  IF ~Truthy(phone) THEN Null
  ELSE LET digits == SelectSeq(phone.s, IsDigit)
       IN  IF Len(digits) = 11 /\ digits[1] = "1"
           THEN Str(<<"+", digits[1], "-">> \o SubSeq(digits, 2, 4) \o <<"-">>
                    \o SubSeq(digits, 5, 7) \o <<"-">> \o SubSeq(digits, 8, 11))
           ELSE IF Len(digits) = 10
           THEN Str(<<"+", "1", "-">> \o SubSeq(digits, 1, 3) \o <<"-">>
                    \o SubSeq(digits, 4, 6) \o <<"-">> \o SubSeq(digits, 7, 10))
           ELSE IF StartsWith(digits, <<"+">>) THEN phone
           ELSE Str(<<"+">> \o phone.s)

transformContactInfo(contact, businessInfo) ==
  [email |-> contact.email,
   phone |-> OrElse(sanitizePhone(contact.phone), Undefined),
   secondary_email |-> OrElse(contact.secondaryEmail, Undefined),
   website |-> OrElse(businessInfo.website, Undefined),
   business_hours |-> OrElse(contact.businessHours, Undefined)]

NoCoordinates == [k |-> "undefined", latitude |-> Undefined, longitude |-> Undefined]

transformLocation(location) ==
  [address |-> location.address,
   city |-> location.city,
   state |-> location.state,
   postal_code |-> OrElse(location.postalCode, Undefined),
   country |-> OrElse(location.country, Str(DEFAULT_COUNTRY)),
   timezone |-> OrElse(location.timezone, Str(DEFAULT_TIMEZONE)),
   coordinates |-> IF location.coordinates.k = "object"
                   THEN [k |-> "object",
                         latitude |-> location.coordinates.latitude,
                         longitude |-> location.coordinates.longitude]
                   ELSE NoCoordinates]

\* A step object carries the keys of the form state (timeoutMinutes,
\* retryAttempts) or those of the wire format (timeout_minutes, retry_attempts);
\* a key it does not carry reads as undefined.
transformWorkflowStep(step) ==
  [name |-> step.name,
   description |-> OrElse(step.description, Undefined),
   required |-> Bool(NotFalse(step.required)),
   timeout_minutes |-> OrElse(step.timeoutMinutes, Num(30)),
   retry_attempts |-> IF IsDefined(step.retryAttempts) THEN step.retryAttempts ELSE Num(3),
   timeoutMinutes |-> Undefined,
   retryAttempts |-> Undefined]

transformWorkflowSteps(steps) ==
  IF Len(steps) = 0 THEN [k |-> "undefined", items |-> <<>>]
  ELSE [k |-> "array", items |-> [j \in 1..Len(steps) |-> transformWorkflowStep(steps[j])]]

NoWireConstraints ==
  [minimum |-> Undefined, maximum |-> Undefined, min_length |-> Undefined,
   max_length |-> Undefined, pattern |-> Undefined, enum |-> Undefined, format |-> Undefined]

\* The keys the returned object carries; a key it does not carry is Undefined.
transformParameterConstraints(param) ==
  IF param.constraints.k # "object" THEN NoWireConstraints
  ELSE LET c == param.constraints
       IN  [minimum |-> IF IsDefined(c.minimum) THEN c.minimum ELSE Undefined,
            maximum |-> IF IsDefined(c.maximum) THEN c.maximum ELSE Undefined,
            min_length |-> IF IsDefined(c.minLength) THEN c.minLength ELSE Undefined,
            max_length |-> IF IsDefined(c.maxLength) THEN c.maxLength ELSE Undefined,
            pattern |-> IF Truthy(c.pattern) THEN c.pattern ELSE Undefined,
            enum |-> IF Truthy(c.enum) /\ c.enum.k = "array" THEN c.enum ELSE Undefined,
            format |-> IF Truthy(c.format) THEN c.format ELSE Undefined]

NoWirePricing ==
  [k |-> "undefined", base_rate |-> Undefined, currency |-> Undefined,
   tax_rate |-> Undefined, service_fee |-> Undefined, minimum_charge |-> Undefined]

\* transformParameterPricing had it copied the fields without defaults
transformParameterPricingCopy(pricing) ==
  [k |-> "object",
   base_rate |-> pricing.baseRate,
   currency |-> pricing.currency,
   tax_rate |-> pricing.taxRate,
   service_fee |-> pricing.serviceFee,
   minimum_charge |-> OrElse(pricing.minimumCharge, Undefined)]

transformParameterPricing(pricing) ==
  [k |-> "object",
   base_rate |-> OrElse(pricing.baseRate, Num(0)),
   currency |-> OrElse(pricing.currency, Str(DEFAULT_CURRENCY)),
   tax_rate |-> OrElse(pricing.taxRate, Num(0)),
   service_fee |-> OrElse(pricing.serviceFee, Num(0)),
   minimum_charge |-> OrElse(pricing.minimumCharge, Undefined)]

\* transformed[param.name] = {...}
transformParameter(param) ==
  LET c == transformParameterConstraints(param)
  IN  [type |-> param.type,
       description |-> param.description,
       required |-> OrElse(param.required, Bool(FALSE)),
       default |-> param.default,
       minimum |-> c.minimum,
       maximum |-> c.maximum,
       min_length |-> c.min_length,
       max_length |-> c.max_length,
       pattern |-> c.pattern,
       enum |-> c.enum,
       format |-> c.format,
       pricing |-> IF param.pricing.k = "object"
                   THEN transformParameterPricing(param.pricing)
                   ELSE NoWirePricing]

\* the key every object literal inherits as an accessor from Object.prototype
ProtoKey == <<"_", "_", "p", "r", "o", "t", "o", "_", "_">>

\* An object used as a map: its own entries in insertion order.  Assigning to a
\* key the object already has replaces the value and keeps the key's position.
\* Assigning an object to ProtoKey runs the inherited setter: the prototype
\* changes and no own entry is made.
\* (Names made of digits only would be enumerated first; the model has none.)
PutEntry(entries, key, value) ==
  IF key = ProtoKey THEN entries
  ELSE IF \E i \in 1..Len(entries) : entries[i].name = key
  THEN [i \in 1..Len(entries) |->
          IF entries[i].name = key THEN [name |-> key, config |-> value] ELSE entries[i]]
  ELSE Append(entries, [name |-> key, config |-> value])

RECURSIVE transformParametersUpTo(_, _)
transformParametersUpTo(parameters, n) ==
  IF n = 0 THEN <<>>
  ELSE PutEntry(transformParametersUpTo(parameters, n - 1),
                parameters[n].name.s, transformParameter(parameters[n]))

transformParameters(parameters) == transformParametersUpTo(parameters, Len(parameters))

transformAvailability(availability) ==
  [endpoint |-> OrElse(availability.endpoint, Undefined),
   real_time |-> Bool(NotFalse(availability.realTime)),
   cache_timeout_seconds |-> OrElse(availability.cacheTimeoutSeconds, Num(300)),
   advance_booking_days |-> OrElse(availability.advanceBookingDays, Num(365))]

transformCancellationPolicy(policy) ==
  [type |-> policy.type,
   free_until_hours |-> OrElse(policy.freeUntilHours, Num(24)),
   penalty_percentage |-> OrElse(policy.penaltyPercentage, Num(0)),
   description |-> policy.description]

transformPaymentConfig(payment) ==
  [methods |-> OrElse(payment.methods, Arr(<<CREDIT_CARD>>)),
   timing |-> OrElse(payment.timing, Str(AT_BOOKING)),
   processing |-> Str(SECURE_TOKENIZED),
   deposit_required |-> OrElse(payment.depositRequired, Bool(FALSE)),
   deposit_percentage |-> IF Truthy(payment.depositRequired)
                          THEN OrElse(payment.depositPercentage, Num(0))
                          ELSE Undefined]

transformServicePolicies(policies) ==
  IF policies.k # "object"
  THEN [modification_fee |-> Num(0), no_show_penalty |-> Num(0)]
  ELSE [modification_fee |-> OrElse(policies.modificationFee, Num(0)),
        no_show_penalty |-> OrElse(policies.noShowPenalty, Num(0))]

transformService(service) ==
  [id |-> service.id,
   name |-> service.name,
   description |-> service.description,
   category |-> service.category,
   workflow_pattern |-> service.workflow.pattern,
   workflow_steps |-> transformWorkflowSteps(service.workflow.steps),
   parameters |-> transformParameters(service.parameters),
   availability |-> transformAvailability(service.availability),
   cancellation_policy |-> transformCancellationPolicy(service.cancellationPolicy),
   payment_config |-> transformPaymentConfig(service.payment),
   policies |-> transformServicePolicies(service.policies)]

transformServices(services) == [i \in 1..Len(services) |-> transformService(services[i])]

\* getMCPEndpoint had it passed the endpoint through whatever autoGenerate says
getMCPEndpointAlways(mcp) ==
  IF mcp.k # "object" THEN Undefined ELSE mcp.endpoint

getMCPEndpoint(mcp) ==
  IF mcp.k # "object" \/ Truthy(mcp.autoGenerate) THEN Undefined ELSE mcp.endpoint

\* getA2ADiscoveryUrl had it sent the URL of an auto-generated discovery as well
getA2ADiscoveryUrlAlways(a2a) ==
  IF a2a.k # "object" THEN Undefined ELSE a2a.discoveryUrl

getA2ADiscoveryUrl(a2a) ==
  IF a2a.k # "object" \/ Truthy(a2a.autoGenerate) THEN Undefined ELSE a2a.discoveryUrl

getWebhookEndpoint(webhooks) ==
  IF webhooks.k # "object" \/ Truthy(webhooks.autoGenerate) THEN Undefined ELSE webhooks.endpoint

transformIntegration(integration, businessInfo) ==
  [mcp_endpoint |-> getMCPEndpoint(integration.mcp),
   a2a_discovery_url |-> getA2ADiscoveryUrl(integration.a2a),
   webhook_endpoint |-> getWebhookEndpoint(integration.webhooks),
   webhook_events |->
     OrElse(IF integration.webhooks.k = "object" THEN integration.webhooks.events ELSE Undefined,
            Arr(<<BOOKING_CONFIRMED, PAYMENT_PROCESSED, BOOKING_CANCELLED>>))]

NoAP2Config ==
  [k |-> "undefined", enabled |-> Undefined, verification_required |-> Undefined,
   mandate_expiry_hours |-> Undefined]

\* transformAP2Config had it sent the block of a disabled AP2 as well
transformAP2ConfigAlways(ap2) ==
  IF ap2.k # "object" THEN NoAP2Config
  ELSE [k |-> "object",
        enabled |-> Bool(Truthy(ap2.enabled)),
        verification_required |-> Bool(NotFalse(ap2.verificationRequired)),
        mandate_expiry_hours |-> OrElse(ap2.mandateExpiryHours, Num(24))]

transformAP2Config(ap2) ==
  IF ap2.k # "object" \/ ~Truthy(ap2.enabled) THEN NoAP2Config
  ELSE [k |-> "object",
        enabled |-> Bool(TRUE),
        verification_required |-> Bool(NotFalse(ap2.verificationRequired)),
        mandate_expiry_hours |-> OrElse(ap2.mandateExpiryHours, Num(24))]

\* Reading a property of undefined or null throws a TypeError: transformService
\* reads service.workflow.steps, availability.endpoint, policy.type and
\* payment.methods, transformIntegration reads integration.mcp.
transformServiceThrows(service) ==
  \/ service.workflow.k # "object"
  \/ service.availability.k # "object"
  \/ service.cancellationPolicy.k # "object"
  \/ service.payment.k # "object"

transformIntegrationThrows(integration) == integration.k # "object"

transformToAPIFormatThrows(fs) ==
  \/ \E i \in 1..Len(fs.services) : transformServiceThrows(fs.services[i])
  \/ transformIntegrationThrows(fs.integration)

\* the object transformToAPIFormat returns when it does not throw
transformToAPIFormat(fs) ==
  [business_name |-> fs.businessInfo.name,
   business_type |-> fs.businessInfo.type,
   business_description |-> OrElse(fs.businessInfo.description, Undefined),
   established_date |-> OrElse(fs.businessInfo.establishedDate, Undefined),
   capacity |-> OrElse(fs.businessInfo.capacity, Undefined),
   contact_info |-> transformContactInfo(fs.contact, fs.businessInfo),
   location |-> transformLocation(fs.location),
   services_config |-> transformServices(fs.services),
   integration |-> transformIntegration(fs.integration, fs.businessInfo),
   ap2_config |-> transformAP2Config(fs.ap2)]

----------------------------------------------------------------------------
(* FormDataTransformer: wire format to form state *)

NoPricing ==
  [k |-> "null", baseRate |-> Undefined, currency |-> Undefined, taxRate |-> Undefined,
   serviceFee |-> Undefined, minimumCharge |-> Undefined]

\* one element of Object.entries(parameters).map(...)
transformParameterFromAPI(name, config) ==
  [name |-> Str(name),
   type |-> config.type,
   description |-> config.description,
   required |-> OrElse(config.required, Bool(FALSE)),
   default |-> config.default,
   constraints |->
     [k |-> "object",
      minimum |-> config.minimum,
      maximum |-> config.maximum,
      minLength |-> config.min_length,
      maxLength |-> config.max_length,
      pattern |-> config.pattern,
      enum |-> config.enum,
      format |-> config.format,
      minItems |-> Undefined,
      maxItems |-> Undefined],
   pricing |->
     IF config.pricing.k = "object"
     THEN [k |-> "object",
           baseRate |-> config.pricing.base_rate,
           currency |-> config.pricing.currency,
           taxRate |-> config.pricing.tax_rate,
           serviceFee |-> config.pricing.service_fee,
           minimumCharge |-> config.pricing.minimum_charge]
     ELSE NoPricing]

transformParametersFromAPI(parameters) ==
  [j \in 1..Len(parameters) |->
     transformParameterFromAPI(parameters[j].name, parameters[j].config)]

transformServiceFromAPI(service) ==
  [id |-> service.id,
   name |-> service.name,
   description |-> service.description,
   category |-> service.category,
   workflow |->
     [k |-> "object",
      pattern |-> service.workflow_pattern,
      \* service.workflow_steps || []: the wire step objects themselves
      steps |-> IF service.workflow_steps.k = "array" THEN service.workflow_steps.items ELSE <<>>],
   parameters |-> transformParametersFromAPI(service.parameters),
   availability |->
     [k |-> "object",
      endpoint |-> service.availability.endpoint,
      realTime |-> Bool(NotFalse(service.availability.real_time)),
      cacheTimeoutSeconds |-> OrElse(service.availability.cache_timeout_seconds, Num(300)),
      advanceBookingDays |-> OrElse(service.availability.advance_booking_days, Num(365))],
   cancellationPolicy |->
     [k |-> "object",
      type |-> service.cancellation_policy.type,
      freeUntilHours |-> OrElse(service.cancellation_policy.free_until_hours, Num(24)),
      penaltyPercentage |-> OrElse(service.cancellation_policy.penalty_percentage, Num(0)),
      description |-> service.cancellation_policy.description],
   payment |->
     [k |-> "object",
      methods |-> OrElse(service.payment_config.methods, Arr(<<CREDIT_CARD>>)),
      timing |-> OrElse(service.payment_config.timing, Str(AT_BOOKING)),
      depositRequired |-> OrElse(service.payment_config.deposit_required, Bool(FALSE)),
      depositPercentage |-> service.payment_config.deposit_percentage],
   policies |->
     [k |-> "object",
      modificationFee |-> OrElse(service.policies.modification_fee, Num(0)),
      noShowPenalty |-> OrElse(service.policies.no_show_penalty, Num(0))]]

transformFromAPIFormat(apiData) ==
  [businessInfo |->
     [name |-> apiData.business_name,
      type |-> apiData.business_type,
      description |-> apiData.business_description,
      website |-> apiData.contact_info.website,
      establishedDate |-> apiData.established_date,
      capacity |-> apiData.capacity],
   location |->
     [address |-> apiData.location.address,
      city |-> apiData.location.city,
      state |-> apiData.location.state,
      postalCode |-> apiData.location.postal_code,
      country |-> OrElse(apiData.location.country, Str(DEFAULT_COUNTRY)),
      timezone |-> OrElse(apiData.location.timezone, Str(DEFAULT_TIMEZONE)),
      coordinates |-> apiData.location.coordinates],
   contact |->
     [email |-> apiData.contact_info.email,
      phone |-> apiData.contact_info.phone,
      secondaryEmail |-> apiData.contact_info.secondary_email,
      businessHours |-> apiData.contact_info.business_hours],
   services |->
     [i \in 1..Len(apiData.services_config) |->
        transformServiceFromAPI(apiData.services_config[i])],
   integration |->
     [k |-> "object",
      mcp |-> [k |-> "object",
               autoGenerate |-> Bool(~Truthy(apiData.integration.mcp_endpoint)),
               endpoint |-> apiData.integration.mcp_endpoint],
      a2a |-> [k |-> "object",
               autoGenerate |-> Bool(~Truthy(apiData.integration.a2a_discovery_url)),
               discoveryUrl |-> apiData.integration.a2a_discovery_url],
      webhooks |-> [k |-> "object",
                    autoGenerate |-> Bool(~Truthy(apiData.integration.webhook_endpoint)),
                    endpoint |-> apiData.integration.webhook_endpoint,
                    events |-> apiData.integration.webhook_events]],
   ap2 |->
     [k |-> "object",
      enabled |-> OrElse(apiData.ap2_config.enabled, Bool(FALSE)),
      verificationRequired |-> Bool(NotFalse(apiData.ap2_config.verification_required)),
      mandateExpiryHours |-> OrElse(apiData.ap2_config.mandate_expiry_hours, Num(24))]]

----------------------------------------------------------------------------
(* The strings the caller types *)

ZionAdventureLodge == <<"Z", "i", "o", "n", " ", "A", "d", "v", "e", "n", "t", "u", "r", "e", " ", "L", "o", "d", "g", "e", "!">>

MainStreet == <<"1", " ", "M", "a", "i", "n", " ", "S", "t">>

Springdale == <<"S", "p", "r", "i", "n", "g", "d", "a", "l", "e">>

Utah == <<"U", "T">>

Mail == <<"a", "@", "b", ".", "c", "o">>

BadMail == <<"a", "@", "b">>

Phone10 == <<"5", "0", "5", "5", "5", "5", "1", "2", "3", "4">>

Phone11 == <<"1", "5", "0", "5", "5", "5", "5", "1", "2", "3", "4">>

PhoneUK == <<"+", "4", "4", "2", "0", "7", "9", "4", "6", "0", "9", "5", "8">>

PhoneUKSpaced == <<"+", "4", "4", " ", "2", "0", " ", "7", "9", "4", "6", " ", "0", "9", "5", "8">>

PhoneFormatted == <<"(", "5", "0", "5", ")", " ", "5", "5", "5", "-", "1", "2", "3", "4">>

UrlSite == <<"h", "t", "t", "p", "s", ":", "/", "/", "a", ".", "i", "o">>

UrlMcp == <<"h", "t", "t", "p", "s", ":", "/", "/", "a", ".", "i", "o", "/", "m", "c", "p">>

UrlAgent == <<"h", "t", "t", "p", "s", ":", "/", "/", "a", ".", "i", "o", "/", ".", "w", "e", "l", "l", "-", "k", "n", "o", "w", "n", "/", "a", "g", "e", "n", "t", ".", "j", "s", "o", "n">>

UrlHook == <<"h", "t", "t", "p", "s", ":", "/", "/", "a", ".", "i", "o", "/", "h", "o", "o", "k">>

UrlFtpMcp == <<"f", "t", "p", ":", "/", "/", "a", ".", "i", "o", "/", "m", "c", "p">>

UrlNoScheme == <<"a", ".", "i", "o", "/", "m", "c", "p">>

UrlNoHost == <<"h", "t", "t", "p", "s", ":", "/", "/">>

RoomBookingName == <<"R", "o", "o", "m", " ", "B", "o", "o", "k", "i", "n", "g">>

RoomBookingId == <<"r", "o", "o", "m", "_", "b", "o", "o", "k", "i", "n", "g">>

SpaName == <<"S", "p", "a", " ", "V", "i", "s", "i", "t">>

SpaId == <<"s", "p", "a">>

BadId == <<"B", "a", "d", "-", "I", "d">>

Lodging == <<"l", "o", "d", "g", "i", "n", "g">>

BookARoom == <<"B", "o", "o", "k", " ", "a", " ", "r", "o", "o", "m">>

CheckInDate == <<"c", "h", "e", "c", "k", "_", "i", "n", "_", "d", "a", "t", "e">>

Guests == <<"g", "u", "e", "s", "t", "s">>

BadParamName == <<"G", "u", "e", "s", "t", "s">>

DateOfArrival == <<"D", "a", "t", "e", " ", "o", "f", " ", "a", "r", "r", "i", "v", "a", "l">>

TenChars == <<"F", "r", "e", "e", " ", "f", "o", "r", " ", "1">>

NineChars == <<"F", "r", "e", "e", " ", "f", "o", "r", " ">>

Confirm == <<"c", "o", "n", "f", "i", "r", "m">>

BadRegex == <<"(", "a">>

GoodRegex == <<"^", "[", "a", "-", "z", "]", "+", "$">>

FormatDate == <<"d", "a", "t", "e">>

Bogus == <<"b", "o", "g", "u", "s">>

EnumA == <<"a">>

EnumB == <<"b">>

----------------------------------------------------------------------------
(* The caller's configuration: a filled-in onboarding form *)

NoConstraints ==
  [k |-> "object", minimum |-> Undefined, maximum |-> Undefined, minLength |-> Undefined,
   maxLength |-> Undefined, pattern |-> Undefined, enum |-> Undefined, format |-> Undefined,
   minItems |-> Undefined, maxItems |-> Undefined]

\* ParameterBuilder.addParameter's new parameter, with its inputs filled in
FilledParameter(name, description) ==
  [name |-> Str(name), type |-> Str(T_STRING), description |-> Str(description),
   required |-> Bool(TRUE), default |-> Undefined,
   constraints |-> NoConstraints, pricing |-> NoPricing]

FilledStep ==
  [name |-> Str(Confirm), description |-> Str(<<>>), required |-> Bool(TRUE),
   timeoutMinutes |-> Num(30), retryAttempts |-> Num(3),
   timeout_minutes |-> Undefined, retry_attempts |-> Undefined]

\* createEmptyService's service, with its inputs filled in
FilledService(id, name, steps, parameters) ==
  [name |-> Str(name), id |-> Str(id), description |-> Str(BookARoom),
   category |-> Str(Lodging),
   workflow |-> [k |-> "object",
                 pattern |-> Str(<<"i", "n", "s", "t", "a", "n", "t", "_",
                                   "p", "u", "r", "c", "h", "a", "s", "e">>),
                 steps |-> steps],
   parameters |-> parameters,
   availability |-> [k |-> "object", realTime |-> Bool(TRUE),
                     cacheTimeoutSeconds |-> Num(300), advanceBookingDays |-> Num(365),
                     endpoint |-> Str(<<>>)],
   cancellationPolicy |-> [k |-> "object",
                           type |-> Str(<<"f", "l", "e", "x", "i", "b", "l", "e">>),
                           freeUntilHours |-> Num(24), penaltyPercentage |-> Num(0),
                           description |-> Str(TenChars)],
   payment |-> [k |-> "object", methods |-> Arr(<<CREDIT_CARD>>), timing |-> Str(AT_BOOKING),
                depositRequired |-> Bool(FALSE), depositPercentage |-> Num(0)],
   policies |-> [k |-> "object", modificationFee |-> Num(0), noShowPenalty |-> Num(0)]]

RoomBooking ==
  FilledService(RoomBookingId, RoomBookingName, <<FilledStep>>,
                <<FilledParameter(CheckInDate, DateOfArrival),
                  FilledParameter(Guests, DateOfArrival)>>)

SpaVisit ==
  FilledService(SpaId, SpaName, <<>>, <<FilledParameter(CheckInDate, DateOfArrival)>>)

\* initializeFormState's form state, with its inputs filled in
FilledForm(services) ==
  [businessInfo |-> [name |-> Str(ZionAdventureLodge),
                     type |-> Str(<<"h", "o", "s", "p", "i", "t", "a", "l", "i", "t", "y">>),
                     description |-> Str(<<>>), website |-> Str(<<>>),
                     establishedDate |-> Str(<<>>), capacity |-> Null],
   location |-> [address |-> Str(MainStreet), city |-> Str(Springdale), state |-> Str(Utah),
                 postalCode |-> Str(<<>>), country |-> Str(DEFAULT_COUNTRY),
                 timezone |-> Str(DEFAULT_TIMEZONE),
                 coordinates |-> [k |-> "null", latitude |-> Undefined, longitude |-> Undefined]],
   contact |-> [email |-> Str(Mail), phone |-> Str(<<>>), secondaryEmail |-> Str(<<>>),
                businessHours |-> Str(<<>>)],
   services |-> services,
   integration |-> [k |-> "object",
                    mcp |-> [k |-> "object", autoGenerate |-> Bool(TRUE), endpoint |-> Str(<<>>)],
                    a2a |-> [k |-> "object", autoGenerate |-> Bool(TRUE),
                             discoveryUrl |-> Str(<<>>)],
                    webhooks |-> [k |-> "object", autoGenerate |-> Bool(TRUE),
                                  endpoint |-> Str(<<>>), events |-> Arr(<<>>)]],
   ap2 |-> [k |-> "object", enabled |-> Bool(TRUE), verificationRequired |-> Bool(TRUE),
            mandateExpiryHours |-> Num(24)]]

\* A configuration handed to the core without its integration block
NoIntegration ==
  [k |-> "undefined",
   mcp |-> [k |-> "undefined", autoGenerate |-> Undefined, endpoint |-> Undefined],
   a2a |-> [k |-> "undefined", autoGenerate |-> Undefined, discoveryUrl |-> Undefined],
   webhooks |-> [k |-> "undefined", autoGenerate |-> Undefined, endpoint |-> Undefined,
                 events |-> Undefined]]

----------------------------------------------------------------------------
(* The caller's edits.  An edit assigns v to the field g of the section sec  *)
(* (of service i, of its step or parameter j).                               *)

Ed(sec, g, i, j, v) == [sec |-> sec, g |-> g, i |-> i, j |-> j, v |-> v]

\* this.formState[stateSection][field] = value and the handlers of
\* ServiceConfigurator and ParameterBuilder, which assign one field
ApplyEdit(fs, e) ==
  CASE e.sec = "formState" -> [fs EXCEPT ![e.g] = e.v]
    [] e.sec = "businessInfo" -> [fs EXCEPT !.businessInfo[e.g] = e.v]
    [] e.sec = "location" -> [fs EXCEPT !.location[e.g] = e.v]
    [] e.sec = "contact" -> [fs EXCEPT !.contact[e.g] = e.v]
    [] e.sec = "mcp" -> [fs EXCEPT !.integration.mcp[e.g] = e.v]
    [] e.sec = "a2a" -> [fs EXCEPT !.integration.a2a[e.g] = e.v]
    [] e.sec = "webhooks" -> [fs EXCEPT !.integration.webhooks[e.g] = e.v]
    [] e.sec = "ap2" -> [fs EXCEPT !.ap2[e.g] = e.v]
    [] e.sec = "service" -> [fs EXCEPT !.services[e.i][e.g] = e.v]
    [] e.sec = "workflow" -> [fs EXCEPT !.services[e.i].workflow[e.g] = e.v]
    [] e.sec = "step" -> [fs EXCEPT !.services[e.i].workflow.steps[e.j][e.g] = e.v]
    [] e.sec = "parameter" -> [fs EXCEPT !.services[e.i].parameters[e.j][e.g] = e.v]
    [] e.sec = "constraints" ->
         [fs EXCEPT !.services[e.i].parameters[e.j].constraints[e.g] = e.v]
    [] e.sec = "availability" -> [fs EXCEPT !.services[e.i].availability[e.g] = e.v]
    [] e.sec = "cancellationPolicy" ->
         [fs EXCEPT !.services[e.i].cancellationPolicy[e.g] = e.v]
    [] e.sec = "payment" -> [fs EXCEPT !.services[e.i].payment[e.g] = e.v]
    [] e.sec = "policies" -> [fs EXCEPT !.services[e.i].policies[e.g] = e.v]

\* the edit a assigns the object that holds the field b assigns
Holds(a, b) ==
  \/ a.sec = "formState" /\ b.sec = a.g
  \/ a.sec = "formState" /\ a.g = "integration" /\ b.sec \in {"mcp", "a2a", "webhooks"}
  \/ a.sec = "service" /\ a.i = b.i /\ b.sec = a.g
  \/ a.sec = "service" /\ a.i = b.i /\ a.g = "workflow" /\ b.sec = "step"
  \/ a.sec = "parameter" /\ a.i = b.i /\ a.j = b.j /\ b.sec = a.g

\* Two edits that assign the same field, or a field and the object holding it
Overlap(e1, e2) ==
  \/ e1.sec = e2.sec /\ e1.g = e2.g /\ e1.i = e2.i /\ e1.j = e2.j
  \/ Holds(e1, e2)
  \/ Holds(e2, e1)

Absent(obj) == [obj EXCEPT !.k = "undefined"]

BusinessEdits ==
  {Ed("businessInfo", "name", 0, 0, Str(<<>>)),
   Ed("businessInfo", "type", 0, 0, Str(Bogus)),
   Ed("businessInfo", "website", 0, 0, Str(UrlNoScheme)),
   Ed("businessInfo", "website", 0, 0, Str(UrlSite)),
   Ed("businessInfo", "capacity", 0, 0, Num(0)),
   Ed("businessInfo", "capacity", 0, 0, Num(-1)),
   Ed("businessInfo", "capacity", 0, 0, Num(50))}

LocationEdits ==
  {Ed("location", "address", 0, 0, Str(<<>>)),
   Ed("location", "city", 0, 0, Str(<<" ">>)),
   Ed("location", "country", 0, 0, Str(<<"U", "S", "A">>)),
   Ed("location", "country", 0, 0, Str(<<"X", "X">>)),
   Ed("location", "timezone", 0, 0, Str(<<>>)),
   Ed("location", "coordinates", 0, 0,
      [k |-> "object", latitude |-> Num(91), longitude |-> Num(0)]),
   Ed("location", "coordinates", 0, 0,
      [k |-> "object", latitude |-> Num(37), longitude |-> Num(-113)])}

ContactEdits ==
  {Ed("contact", "email", 0, 0, Str(BadMail)),
   Ed("contact", "phone", 0, 0, Str(Phone10)),
   Ed("contact", "phone", 0, 0, Str(Phone11)),
   Ed("contact", "phone", 0, 0, Str(PhoneUK)),
   Ed("contact", "phone", 0, 0, Str(PhoneUKSpaced)),
   Ed("contact", "phone", 0, 0, Str(PhoneFormatted)),
   Ed("contact", "secondaryEmail", 0, 0, Str(BadMail)),
   Ed("contact", "secondaryEmail", 0, 0, Str(Mail))}

ServiceIdValues ==
  {Str(RoomBookingId), Str(SpaId), Str(BadId), Str(<<>>), Str(Rep("a", SERVICE_ID_MAX_LENGTH + 1))}

ServiceEdits ==
  {Ed("service", "id", 1, 0, v) : v \in ServiceIdValues \ {Str(RoomBookingId)}}
  \cup
  {Ed("service", "id", 2, 0, Str(RoomBookingId)),
   Ed("service", "name", 1, 0, Str(<<>>)),
   Ed("service", "name", 2, 0, Str(<<>>)),
   Ed("service", "description", 1, 0, Str(<<>>)),
   Ed("service", "category", 1, 0, Str(<<>>)),
   Ed("service", "workflow", 1, 0, Absent(RoomBooking.workflow)),
   Ed("service", "availability", 1, 0, Absent(RoomBooking.availability)),
   Ed("service", "cancellationPolicy", 1, 0, Absent(RoomBooking.cancellationPolicy)),
   Ed("service", "payment", 1, 0, Absent(RoomBooking.payment)),
   Ed("service", "policies", 1, 0, Absent(RoomBooking.policies))}

WorkflowEdits ==
  {Ed("workflow", "pattern", 1, 0, Str(Bogus)),
   Ed("step", "name", 1, 1, Str(<<>>)),
   Ed("step", "timeoutMinutes", 1, 1, Num(0)),
   Ed("step", "timeoutMinutes", 1, 1, Num(45)),
   Ed("step", "timeoutMinutes", 1, 1, Num(1441)),
   Ed("step", "timeoutMinutes", 1, 1, Undefined),
   Ed("step", "retryAttempts", 1, 1, Num(0)),
   Ed("step", "retryAttempts", 1, 1, Num(11)),
   Ed("step", "retryAttempts", 1, 1, Undefined)}

ParameterEdits ==
  {Ed("parameter", "name", 1, 1, Str(BadParamName)),
   Ed("parameter", "name", 1, 1, Str(<<>>)),
   Ed("parameter", "name", 1, 2, Str(CheckInDate)),
   Ed("parameter", "type", 1, 1, Str(Bogus)),
   Ed("parameter", "type", 1, 1, Str(T_NUMBER)),
   Ed("parameter", "type", 1, 1, Str(T_ARRAY)),
   Ed("parameter", "description", 1, 1, Str(<<>>)),
   Ed("parameter", "required", 1, 1, Bool(FALSE)),
   Ed("parameter", "pricing", 1, 1,
      [NoPricing EXCEPT !.k = "object", !.baseRate = Num(-1)]),
   Ed("parameter", "pricing", 1, 1, [NoPricing EXCEPT !.k = "object"]),
   Ed("parameter", "pricing", 1, 1,
      [k |-> "object", baseRate |-> Num(10), currency |-> Str(DEFAULT_CURRENCY),
       taxRate |-> Num(0), serviceFee |-> Num(2), minimumCharge |-> Num(5)])}

\* ParameterBuilder.updateParameterConstraints: the constraint inputs
ConstraintEdits ==
  {Ed("constraints", "minimum", 1, 1, Num(5)),
   Ed("constraints", "maximum", 1, 1, Num(3)),
   Ed("constraints", "minLength", 1, 1, Num(10)),
   Ed("constraints", "maxLength", 1, 1, Num(5)),
   Ed("constraints", "pattern", 1, 1, Str(BadRegex)),
   Ed("constraints", "pattern", 1, 1, Str(GoodRegex)),
   Ed("constraints", "enum", 1, 1, Arr(<<EnumA, EnumB>>)),
   Ed("constraints", "format", 1, 1, Str(FormatDate)),
   Ed("constraints", "minItems", 1, 1, Num(1)),
   Ed("constraints", "maxItems", 1, 1, Num(0))}

AvailabilityEdits ==
  {Ed("availability", "cacheTimeoutSeconds", 1, 0, Num(0)),
   Ed("availability", "cacheTimeoutSeconds", 1, 0, Num(CACHE_TIMEOUT_SECONDS_MAX + 1)),
   Ed("availability", "cacheTimeoutSeconds", 1, 0, Undefined),
   Ed("availability", "advanceBookingDays", 1, 0, Num(0)),
   Ed("availability", "advanceBookingDays", 1, 0, Num(30)),
   Ed("availability", "advanceBookingDays", 1, 0, Undefined),
   Ed("availability", "endpoint", 1, 0, Str(UrlNoScheme)),
   Ed("availability", "realTime", 1, 0, Bool(FALSE))}

CancellationEdits ==
  {Ed("cancellationPolicy", "type", 1, 0, Str(Bogus)),
   Ed("cancellationPolicy", "freeUntilHours", 1, 0, Num(0)),
   Ed("cancellationPolicy", "freeUntilHours", 1, 0, Num(FREE_CANCELLATION_HOURS_MAX + 1)),
   Ed("cancellationPolicy", "freeUntilHours", 1, 0, Undefined),
   Ed("cancellationPolicy", "penaltyPercentage", 1, 0, Num(150)),
   Ed("cancellationPolicy", "penaltyPercentage", 1, 0, Num(100)),
   Ed("cancellationPolicy", "description", 1, 0, Str(NineChars))}

PaymentEdits ==
  {Ed("payment", "methods", 1, 0, Arr(<<>>)),
   Ed("payment", "methods", 1, 0, Arr(<<Bogus>>)),
   Ed("payment", "methods", 1, 0, Arr(<<CREDIT_CARD, <<"c", "a", "s", "h">> >>)),
   Ed("payment", "methods", 1, 0, Undefined),
   Ed("payment", "timing", 1, 0, Str(Bogus)),
   Ed("payment", "depositRequired", 1, 0, Bool(TRUE)),
   Ed("payment", "depositPercentage", 1, 0, Num(101)),
   Ed("policies", "modificationFee", 1, 0, Num(-1)),
   Ed("policies", "noShowPenalty", 1, 0, Num(5))}

IntegrationEdits ==
  {Ed("formState", "integration", 0, 0, NoIntegration),
   Ed("mcp", "autoGenerate", 0, 0, Bool(FALSE)),
   Ed("mcp", "endpoint", 0, 0, Str(UrlMcp)),
   Ed("mcp", "endpoint", 0, 0, Str(UrlSite)),
   Ed("a2a", "autoGenerate", 0, 0, Bool(FALSE)),
   Ed("a2a", "discoveryUrl", 0, 0, Str(UrlAgent)),
   Ed("webhooks", "autoGenerate", 0, 0, Bool(FALSE)),
   Ed("webhooks", "endpoint", 0, 0, Str(UrlHook)),
   Ed("webhooks", "events", 0, 0, Arr(<<Bogus>>)),
   Ed("webhooks", "events", 0, 0, Arr(<<BOOKING_CONFIRMED>>)),
   Ed("webhooks", "events", 0, 0, Undefined)}

AP2Edits ==
  {Ed("ap2", "enabled", 0, 0, Bool(FALSE)),
   Ed("ap2", "mandateExpiryHours", 0, 0, Num(0)),
   Ed("ap2", "mandateExpiryHours", 0, 0, Num(169)),
   Ed("ap2", "mandateExpiryHours", 0, 0, Num(48)),
   Ed("ap2", "verificationRequired", 0, 0, Bool(FALSE))}

AllEdits ==
  BusinessEdits \cup LocationEdits \cup ContactEdits \cup ServiceEdits \cup WorkflowEdits
  \cup ParameterEdits \cup ConstraintEdits \cup AvailabilityEdits \cup CancellationEdits
  \cup PaymentEdits \cup IntegrationEdits \cup AP2Edits

----------------------------------------------------------------------------
(* The state machine *)

\* the number of fields the caller changes before it calls the core
MaxEdits == 2

NoResult == [isValid |-> FALSE, errors |-> <<>>]

NoPayload == [threw |-> FALSE, v |-> <<>>]

\* the form as the caller has filled it in before the edits
InitialForm == FilledForm(<<RoomBooking, SpaVisit>>)

Init ==
  /\ formState = InitialForm
  /\ pc = "edit"
  /\ applied = {}
  /\ validation = NoResult
  /\ payload = NoPayload
  /\ restored = <<>>
  /\ original = <<>>
  /\ pushed = FALSE
  /\ validatorErrors = <<>>
  /\ returned = <<>>
  /\ InitForm

\* what a call of the core returned; returned is the log of the calls so far
Returned(call, on, result) == [call |-> call, on |-> on, result |-> result]

\* The caller changes one field of the configuration it owns.
Edit(S) ==
  /\ pc = "edit"
  /\ Cardinality(applied) < MaxEdits
  /\ \E e \in S :
       /\ \A d \in applied : ~Overlap(d, e)
       /\ formState' = ApplyEdit(formState, e)
       /\ applied' = applied \cup {e}
  /\ UNCHANGED <<pc, validation, payload, restored, original, pushed, validatorErrors, returned>>
  /\ UNCHANGED formVars

\* The same, any number of times, for a few fields.
FreeEdit(S) ==
  /\ pc = "edit"
  /\ \E e \in S : formState' = ApplyEdit(formState, e)
  /\ UNCHANGED <<pc, applied, validation, payload, restored, original, pushed, validatorErrors, returned>>
  /\ UNCHANGED formVars

\* validator.validateComplete(formState)
ValidateComplete ==
  /\ pc = "edit"
  /\ validation' = validateCompleteOn(validatorErrors, formState)
  /\ validatorErrors' = validation'.errors
  /\ original' = formState
  /\ pc' = "validated"
  /\ returned' = Append(returned, Returned("validateComplete", formState, validation'))
  /\ UNCHANGED <<formState, applied, payload, restored, pushed>>
  /\ UNCHANGED formVars

\* transformer.transformToAPIFormat(formState)
TransformToAPIFormat ==
  /\ pc = "validated"
  /\ payload' = IF transformToAPIFormatThrows(formState)
                THEN [threw |-> TRUE, v |-> <<>>]
                ELSE [threw |-> FALSE, v |-> transformToAPIFormat(formState)]
  /\ pc' = "transformed"
  /\ returned' = Append(returned, Returned("transformToAPIFormat", formState, payload'))
  /\ UNCHANGED <<formState, applied, validation, restored, original, pushed, validatorErrors>>
  /\ UNCHANGED formVars

\* transformer.transformFromAPIFormat(payload)
TransformFromAPIFormat ==
  /\ pc = "transformed"
  /\ ~payload.threw
  /\ restored' = transformFromAPIFormat(payload.v)
  /\ pc' = "restored"
  /\ returned' = Append(returned, Returned("transformFromAPIFormat", payload.v, restored'))
  /\ UNCHANGED <<formState, applied, validation, payload, original, pushed, validatorErrors>>
  /\ UNCHANGED formVars

\* transformPaymentConfig returns payment.methods itself when it is truthy, and
\* transformIntegration returns integration.webhooks.events itself: the payload
\* and the form state then hold the same array object.
methodsShared(payment) == Truthy(payment.methods)

eventsShared(integration) ==
  integration.webhooks.k = "object" /\ Truthy(integration.webhooks.events)

\* The caller pushes an element onto an array of the payload it was returned.
PayloadPush ==
  /\ pc = "transformed"
  /\ ~payload.threw
  /\ ~pushed
  /\ pushed' = TRUE
  /\ \/ \E i \in 1..Len(formState.services) :
          /\ payload' = [payload EXCEPT
               !.v.services_config[i].payment_config.methods.a = Append(@, <<"c", "a", "s", "h">>)]
          /\ formState' = IF methodsShared(formState.services[i].payment)
                          THEN [formState EXCEPT
                                  !.services[i].payment.methods.a = Append(@, <<"c", "a", "s", "h">>)]
                          ELSE formState
     \/ /\ payload' = [payload EXCEPT
             !.v.integration.webhook_events.a = Append(@, BOOKING_CONFIRMED)]
        /\ formState' = IF eventsShared(formState.integration)
                        THEN [formState EXCEPT
                                !.integration.webhooks.events.a = Append(@, BOOKING_CONFIRMED)]
                        ELSE formState
  /\ UNCHANGED <<pc, applied, validation, restored, original, validatorErrors, returned>>
  /\ UNCHANGED formVars

Next ==
  \/ Edit(AllEdits)
  \/ ValidateComplete
  \/ TransformToAPIFormat
  \/ TransformFromAPIFormat
  \/ PayloadPush

Spec == Init /\ [][Next]_vars

----------------------------------------------------------------------------
(* Claims checked on the whole pipeline (Spec) *)

Transformed == pc \in {"transformed", "restored"} /\ ~payload.threw

\* reading a property the object may not carry
Get(obj, key) == IF key \in DOMAIN obj THEN obj[key] ELSE Undefined

\* absent: undefined or null
Nullish(v) == v.k \in {"undefined", "null"}

\* absent, for an optional text input: undefined, null or the empty string
Blank(v) == Nullish(v) \/ v = Str(<<>>)

\* equal, or an absent optional field that came back as null/undefined
Eqv(a, b) == a = b \/ (Blank(a) /\ Blank(b))

\* the same for an object: absent on both sides, or equal field by field
ObjEqv(a, b) ==
  \/ a.k # "object" /\ b.k # "object"
  \/ /\ a.k = "object"
     /\ b.k = "object"
     /\ \A g \in (DOMAIN a) \ {"k"} : Eqv(a[g], Get(b, g))

StepEqv(a, b) ==
  \A g \in {"name", "description", "required", "timeoutMinutes", "retryAttempts"} :
    Eqv(a[g], b[g])

ParameterEqv(a, b) ==
  /\ \A g \in {"name", "type", "description", "required", "default"} : Eqv(a[g], b[g])
  /\ ObjEqv(a.constraints, b.constraints)
  /\ ObjEqv(a.pricing, b.pricing)

ServiceEqv(a, b) ==
  /\ \A g \in {"id", "name", "description", "category"} : Eqv(a[g], b[g])
  /\ Eqv(a.workflow.pattern, b.workflow.pattern)
  /\ Len(a.workflow.steps) = Len(b.workflow.steps)
  /\ \A j \in 1..Len(a.workflow.steps) : StepEqv(a.workflow.steps[j], b.workflow.steps[j])
  /\ Len(a.parameters) = Len(b.parameters)
  /\ \A j \in 1..Len(a.parameters) : ParameterEqv(a.parameters[j], b.parameters[j])
  /\ ObjEqv(a.availability, b.availability)
  /\ ObjEqv(a.cancellationPolicy, b.cancellationPolicy)
  /\ ObjEqv(a.payment, b.payment)
  /\ ObjEqv(a.policies, b.policies)

ConfigEqv(a, b) ==
  /\ \A g \in DOMAIN a.businessInfo : Eqv(a.businessInfo[g], b.businessInfo[g])
  /\ \A g \in (DOMAIN a.location) \ {"coordinates"} : Eqv(a.location[g], b.location[g])
  /\ ObjEqv(a.location.coordinates, b.location.coordinates)
  /\ \A g \in DOMAIN a.contact : Eqv(a.contact[g], b.contact[g])
  /\ Len(a.services) = Len(b.services)
  /\ \A i \in 1..Len(a.services) : ServiceEqv(a.services[i], b.services[i])
  /\ ObjEqv(a.integration.mcp, b.integration.mcp)
  /\ ObjEqv(a.integration.a2a, b.integration.a2a)
  /\ ObjEqv(a.integration.webhooks, b.integration.webhooks)
  /\ ObjEqv(a.ap2, b.ap2)

\* C1: a configuration that validateComplete accepts comes back from
\* transformFromAPIFormat(transformToAPIFormat(c)) equal to itself in every
\* field, but for an absent optional field that reappears as null/undefined.
C1_RoundTrip ==
  (pc = "restored" /\ validation.isValid) => ConfigEqv(original, restored)

\* C3: transformToAPIFormat does not throw on a configuration that
\* validateComplete accepts (and transformFromAPIFormat does not throw on the
\* payload: TransformFromAPIFormat is then enabled and never throws).
C3_NoThrowOnValidated ==
  (pc \in {"transformed", "restored"} /\ validation.isValid) => ~payload.threw

\* the result C4 states for a non-empty phone input
ClaimedPhone(s) ==
  LET digits == SelectSeq(s, IsDigit)
  IN  IF Len(digits) = 10
      THEN <<"+", "1", "-">> \o SubSeq(digits, 1, 3) \o <<"-">> \o SubSeq(digits, 4, 6)
           \o <<"-">> \o SubSeq(digits, 7, 10)
      ELSE IF Len(digits) = 11 /\ digits[1] = "1"
      THEN <<"+", "1", "-">> \o SubSeq(digits, 2, 4) \o <<"-">> \o SubSeq(digits, 5, 7)
           \o <<"-">> \o SubSeq(digits, 8, 11)
      ELSE <<"+">> \o digits

\* C4: sanitizePhone gives '+1-AAA-EEE-LLLL' for 10 digits and for 11 digits
\* starting with 1, and otherwise the input stripped of formatting behind
\* exactly one leading '+'.
C4_PhoneSanitization ==
  (Transformed /\ Truthy(original.contact.phone))
    => payload.v.contact_info.phone = Str(ClaimedPhone(original.contact.phone.s))

\* the wire value of a field with a default: the source value when it is
\* present, the default only when it is absent
PresentOrDefault(source, wire, default) ==
  wire = IF Nullish(source) THEN Num(default) ELSE source

\* C5: for a configuration that validateComplete accepts, cache_timeout_seconds,
\* advance_booking_days and free_until_hours carry the source value whenever it
\* is present and the defaults 300, 365 and 24 only when it is absent.
C5_DefaultOnlyOnAbsence ==
  (Transformed /\ validation.isValid) =>
    \A i \in 1..Len(original.services) :
      LET src == original.services[i]
          wire == payload.v.services_config[i]
      IN  /\ PresentOrDefault(src.availability.cacheTimeoutSeconds,
                              wire.availability.cache_timeout_seconds, 300)
          /\ PresentOrDefault(src.availability.advanceBookingDays,
                              wire.availability.advance_booking_days, 365)
          /\ PresentOrDefault(src.cancellationPolicy.freeUntilHours,
                              wire.cancellation_policy.free_until_hours, 24)

\* the wire name of each constraint key
WireName ==
  [minimum |-> "minimum", maximum |-> "maximum", minLength |-> "min_length",
   maxLength |-> "max_length", pattern |-> "pattern", enum |-> "enum", format |-> "format",
   minItems |-> "min_items", maxItems |-> "max_items"]

\* the wire parameter of the source parameter j of service i
WireParameter(i, j) ==
  LET entries == payload.v.services_config[i].parameters
      name == original.services[i].parameters[j].name.s
  IN  (CHOOSE x \in {entries[h] : h \in 1..Len(entries)} : x.name = name).config

\* C6: every constraint key present in the source constraints appears in the
\* wire parameter under its wire name with the same value, and no wire
\* constraint key appears whose source value is absent.
C6_ConstraintRewriteTotal ==
  Transformed =>
    \A i \in 1..Len(original.services) :
      \A j \in 1..Len(original.services[i].parameters) :
        LET param == original.services[i].parameters[j]
            unique == \A h \in 1..Len(original.services[i].parameters) :
                        h # j => original.services[i].parameters[h].name # param.name
        IN  (unique /\ param.constraints.k = "object") =>
              \A key \in DOMAIN WireName :
                Get(WireParameter(i, j), WireName[key]) = param.constraints[key]

\* C10: once the core has been called, no field of its argument changes,
\* whatever the caller then does with the payload it was returned.
C10_InputNeverMutated ==
  pc # "edit" => formState = original

----------------------------------------------------------------------------
(* Validation alone: the caller edits the form and validates it *)

NextValidate == Edit(AllEdits) \/ ValidateComplete

SpecValidate == Init /\ [][NextValidate]_vars

\* Two edits whose fields one rule of the validator reads together: the ids of
\* the services and the names of a service's parameters (uniqueness), a
\* parameter's type and its constraints, the two ends of a range, an
\* autoGenerate flag and its endpoint, depositRequired and depositPercentage,
\* ap2.enabled and the AP2 fields.
SameRule(e1, e2) ==
  \/ e1.sec = "service" /\ e2.sec = "service" /\ e1.g = "id" /\ e2.g = "id"
  \/ /\ e1.sec = "parameter" /\ e2.sec = "parameter"
     /\ e1.g = "name" /\ e2.g = "name" /\ e1.i = e2.i
  \/ /\ e1.sec = "parameter" /\ e1.g = "type" /\ e2.sec = "constraints"
     /\ e1.i = e2.i /\ e1.j = e2.j
  \/ /\ e1.sec = "constraints" /\ e2.sec = "constraints" /\ e1.i = e2.i /\ e1.j = e2.j
     /\ {e1.g, e2.g} \in {{"minimum", "maximum"}, {"minLength", "maxLength"}}
  \/ /\ e1.sec = e2.sec /\ e1.sec \in {"mcp", "a2a", "webhooks"}
     /\ e1.g = "autoGenerate" /\ e2.g \in {"endpoint", "discoveryUrl"}
  \/ /\ e1.sec = "payment" /\ e2.sec = "payment" /\ e1.i = e2.i
     /\ e1.g = "depositRequired" /\ e2.g = "depositPercentage"
  \/ e1.sec = "ap2" /\ e2.sec = "ap2" /\ e1.g = "enabled"

Independent(edits) ==
  \A e1 \in edits : \A e2 \in edits \ {e1} : ~SameRule(e1, e2) /\ ~SameRule(e2, e1)

Messages(errors) == {errors[h] : h \in 1..Len(errors)}

\* the messages an edit produces when it is the only one made
MessagesAlone(e) == Messages(validateComplete(ApplyEdit(InitialForm, e)).errors)

\* C9: validateComplete does not short-circuit: the messages of a configuration
\* with several independent violations are the union of the messages each
\* violation produces alone.
C9_NoShortCircuit ==
  (pc = "validated" /\ Independent(applied))
    => Messages(validation.errors) = UNION {MessagesAlone(e) : e \in applied}

\* two violations in different sections, both reported
C9_Witness ==
  /\ pc = "validated"
  /\ Independent(applied)
  /\ \E e1 \in applied : \E e2 \in applied :
       /\ e1.sec = "businessInfo"
       /\ e2.sec = "availability"
       /\ MessagesAlone(e1) # {}
       /\ MessagesAlone(e2) # {}
       /\ MessagesAlone(e1) \cap MessagesAlone(e2) = {}
  /\ Cardinality(Messages(validation.errors)) = 2

----------------------------------------------------------------------------
(* The integration block: every combination of the autoGenerate flags and
   the endpoint inputs (handleIntegrationAutoGenerate, attachInputListeners) *)

IntegrationInputs ==
  {Ed(sec, "autoGenerate", 0, 0, Bool(b)) : sec \in {"mcp", "a2a", "webhooks"}, b \in BOOLEAN}
  \cup {Ed("mcp", "endpoint", 0, 0, Str(v)) : v \in {<<>>, UrlMcp, UrlSite, UrlNoScheme, UrlFtpMcp}}
  \cup {Ed("a2a", "discoveryUrl", 0, 0, Str(v)) : v \in {<<>>, UrlAgent, UrlSite}}
  \cup {Ed("webhooks", "endpoint", 0, 0, Str(v)) : v \in {<<>>, UrlHook, UrlNoScheme, UrlNoHost}}

NextIntegration ==
  \/ FreeEdit(IntegrationInputs)
  \/ ValidateComplete
  \/ TransformToAPIFormat
  \/ TransformFromAPIFormat

SpecIntegration == Init /\ [][NextIntegration]_vars

Reported(m) == Err(m) \in Messages(validation.errors)

\* what C7 states for one of the three endpoints
ConditionallyRequired(sub, url, required, shape) ==
  /\ (sub.autoGenerate = Bool(FALSE) /\ url = Str(<<>>)) => Reported(required)
  /\ sub.autoGenerate = Bool(TRUE) => (~Reported(required) /\ ~Reported(shape))

\* C7: with autoGenerate false and an empty endpoint validateComplete reports
\* the 'required' error of that endpoint; with autoGenerate true it reports
\* neither the 'required' nor the 'must be a valid URL' error, whatever the
\* endpoint holds. This for MCP, A2A and webhooks alike.
C7_ConditionalRequiredness ==
  pc = "validated" =>
    LET integration == original.integration
    IN  /\ ConditionallyRequired(integration.mcp, integration.mcp.endpoint,
             "MCP endpoint is required when auto-generate is disabled",
             "MCP endpoint must be a valid URL ending with /mcp")
        /\ ConditionallyRequired(integration.a2a, integration.a2a.discoveryUrl,
             "A2A discovery URL is required when auto-generate is disabled",
             "A2A discovery URL must be a valid URL containing /.well-known/agent.json")
        /\ ConditionallyRequired(integration.webhooks, integration.webhooks.endpoint,
             "Webhook endpoint is required when auto-generate is disabled",
             "Webhook endpoint must be a valid URL")

\* MCP generated although its endpoint input holds no URL, A2A explicit and
\* empty, webhooks generated with an empty endpoint
C7_Witness ==
  /\ pc = "validated"
  /\ original.integration.mcp.autoGenerate = Bool(TRUE)
  /\ original.integration.mcp.endpoint = Str(UrlNoScheme)
  /\ original.integration.a2a.autoGenerate = Bool(FALSE)
  /\ original.integration.a2a.discoveryUrl = Str(<<>>)
  /\ original.integration.webhooks.autoGenerate = Bool(TRUE)
  /\ original.integration.webhooks.endpoint = Str(<<>>)
  /\ Messages(validation.errors) =
       {Err("A2A discovery URL is required when auto-generate is disabled")}

\* what C8 states for one of the three wire fields
OmittedOrExplicit(sub, url, wire) ==
  /\ sub.autoGenerate = Bool(TRUE) => wire = Undefined
  /\ sub.autoGenerate = Bool(FALSE) => wire = url

\* C8: transformToAPIFormat leaves mcp_endpoint, a2a_discovery_url and
\* webhook_endpoint absent whenever the autoGenerate flag is true, whatever the
\* source endpoint holds, and sets each to exactly the source endpoint whenever
\* the flag is false.
C8_OmissionSemantics ==
  Transformed =>
    LET integration == original.integration
        wire == payload.v.integration
    IN  /\ OmittedOrExplicit(integration.mcp, integration.mcp.endpoint, wire.mcp_endpoint)
        /\ OmittedOrExplicit(integration.a2a, integration.a2a.discoveryUrl,
                             wire.a2a_discovery_url)
        /\ OmittedOrExplicit(integration.webhooks, integration.webhooks.endpoint,
                             wire.webhook_endpoint)

\* MCP generated although an endpoint was typed in, A2A explicit
C8_Witness ==
  /\ pc = "transformed"
  /\ ~payload.threw
  /\ original.integration.mcp.autoGenerate = Bool(TRUE)
  /\ original.integration.mcp.endpoint = Str(UrlMcp)
  /\ payload.v.integration.mcp_endpoint = Undefined
  /\ original.integration.a2a.autoGenerate = Bool(FALSE)
  /\ payload.v.integration.a2a_discovery_url = Str(UrlAgent)
  /\ original.integration.webhooks.autoGenerate = Bool(FALSE)
  /\ payload.v.integration.webhook_endpoint = Str(<<>>)

----------------------------------------------------------------------------
(* The service ids: three services, every combination of id inputs
   (ServiceConfigurator.handleServiceInput) *)

ServiceIdInputs == {Ed("service", "id", i, 0, v) : i \in 1..3, v \in ServiceIdValues}

\* the third service entered as a copy of the second
InitServiceIds ==
  /\ formState = FilledForm(<<RoomBooking, SpaVisit, SpaVisit>>)
  /\ pc = "edit"
  /\ applied = {}
  /\ validation = NoResult
  /\ payload = NoPayload
  /\ restored = <<>>
  /\ original = <<>>
  /\ pushed = FALSE
  /\ validatorErrors = <<>>
  /\ returned = <<>>
  /\ InitForm

NextServiceIds == FreeEdit(ServiceIdInputs) \/ ValidateComplete

SpecServiceIds == InitServiceIds /\ [][NextServiceIds]_vars

\* the positions in this.errors of the 'already used' errors labelled Service i
DuplicateIdErrors(i) ==
  {h \in 1..Len(validation.errors) :
     /\ validation.errors[h].msg = "Service ID is already used"
     /\ validation.errors[h].svc = i
     /\ validation.errors[h].kind = ""}

\* exactly one duplicate error, naming the id, on every service whose id an
\* earlier service has, and none on any other service
OneErrorPerLaterDuplicate ==
  \A i \in 1..Len(original.services) :
    /\ Cardinality(DuplicateIdErrors(i)) =
         IF \E j \in 1..(i - 1) : original.services[j].id = original.services[i].id
         THEN 1 ELSE 0
    /\ \A h \in DuplicateIdErrors(i) : validation.errors[h].arg = original.services[i].id.s

\* C2 as stated: for a service list whose ids are all non-empty and
\* pattern-valid, validateComplete emits exactly one 'already used' error for
\* each service whose id equals that of an earlier service, labelled with the
\* later service, and none for a first occurrence.
C2_AsStated ==
  (/\ pc = "validated"
   /\ \A i \in 1..Len(original.services) :
        /\ original.services[i].id.s # <<>>
        /\ SERVICE_ID_PATTERN(original.services[i].id.s))
    => OneErrorPerLaterDuplicate

\* C2, amended: the same for a service list whose ids are all pattern-valid
\* and between 1 and 100 characters long.
C2_ServiceIdUniqueness ==
  (/\ pc = "validated"
   /\ \A i \in 1..Len(original.services) :
        /\ Len(original.services[i].id.s) \in 1..SERVICE_ID_MAX_LENGTH
        /\ SERVICE_ID_PATTERN(original.services[i].id.s))
    => OneErrorPerLaterDuplicate

\* three services with one id: the second and the third are reported
C2_Witness ==
  /\ pc = "validated"
  /\ \A i \in 1..3 : original.services[i].id = Str(SpaId)
  /\ DuplicateIdErrors(1) = {}
  /\ Cardinality(DuplicateIdErrors(2)) = 1
  /\ Cardinality(DuplicateIdErrors(3)) = 1

----------------------------------------------------------------------------
(* One validator and one transformer called again and again: after a submit
   the caller goes on editing the form and submits once more *)

\* the number of calls of the core after which the caller stops editing
MaxCalls == 4

HistoryInputs ==
  {Ed("businessInfo", "name", 0, 0, Str(<<>>)),
   Ed("businessInfo", "name", 0, 0, Str(ZionAdventureLodge)),
   Ed("contact", "email", 0, 0, Str(BadMail)),
   Ed("contact", "email", 0, 0, Str(Mail))}

\* handleSubmit has returned; the form is edited again
EditAgain ==
  /\ pc \in {"validated", "transformed", "restored"}
  /\ Len(returned) < MaxCalls
  /\ pc' = "edit"
  /\ UNCHANGED <<formState, applied, validation, payload, restored, original, pushed,
                 validatorErrors, returned>>
  /\ UNCHANGED formVars

NextHistory ==
  \/ FreeEdit(HistoryInputs)
  \/ ValidateComplete
  \/ TransformToAPIFormat
  \/ TransformFromAPIFormat
  \/ EditAgain

SpecHistory == Init /\ [][NextHistory]_vars

\* C11: on one validator and one transformer, whatever calls came before, a
\* call of validateComplete, transformToAPIFormat or transformFromAPIFormat on
\* an input returns what any other call of it on an equal input returned: the
\* errors of an earlier configuration never show in a later result.
C11_HistoryIndependence ==
  \A h \in 1..Len(returned) : \A g \in 1..Len(returned) :
    (returned[h].call = returned[g].call /\ returned[h].on = returned[g].on)
      => returned[h].result = returned[g].result

\* the valid form validated, then a form with two errors, then the valid form
\* again
C11_Witness ==
  /\ Len(returned) >= 3
  /\ \A h \in 1..3 : returned[h].call = "validateComplete"
  /\ returned[1].on = InitialForm
  /\ returned[1].result.isValid
  /\ Len(returned[2].result.errors) = 2
  /\ returned[3].on = InitialForm
  /\ returned[3].result.isValid

----------------------------------------------------------------------------
(* One parameter: every combination of its type and of the numbers typed
   into its constraint inputs (ParameterBuilder.updateParameterConstraints) *)

ConstraintInputs ==
  {Ed("parameter", "type", 1, 1, Str(t)) : t \in {T_STRING, T_NUMBER, T_INTEGER, T_ARRAY}}
  \cup {Ed("constraints", g, 1, 1, v) :
          g \in {"minimum", "maximum", "minLength", "maxLength"},
          v \in {Undefined, Num(0), Num(5), Num(10)}}
  \cup {Ed("constraints", g, 1, 1, v) :
          g \in {"minItems", "maxItems"}, v \in {Undefined, Num(1), Num(3)}}

NextConstraints == FreeEdit(ConstraintInputs) \/ ValidateComplete

SpecConstraints == Init /\ [][NextConstraints]_vars

\* the parameter the inputs belong to, as it was validated
TheParameter == original.services[1].parameters[1]

ReportedAt(pre, m) == ErrAt(pre, m) \in Messages(validation.errors)

\* C12: for a 'string' parameter with minLength and maxLength both given,
\* validateComplete reports 'Minimum length cannot be greater than maximum
\* length' exactly when minLength > maxLength; for a 'number' or 'integer'
\* parameter with minimum and maximum both given it reports 'Minimum cannot
\* be greater than maximum' exactly when minimum > maximum.
C12_RangeConstraints ==
  pc = "validated" =>
    LET c == TheParameter.constraints
    IN  /\ (/\ TheParameter.type = Str(T_STRING)
            /\ IsNumber(c.minLength) /\ IsNumber(c.maxLength))
           => (ReportedAt(InParameter(1, 1),
                          "Minimum length cannot be greater than maximum length")
                 <=> c.minLength.n > c.maxLength.n)
        /\ (/\ TheParameter.type \in {Str(T_NUMBER), Str(T_INTEGER)}
            /\ IsNumber(c.minimum) /\ IsNumber(c.maximum))
           => (ReportedAt(InParameter(1, 1), "Minimum cannot be greater than maximum")
                 <=> c.minimum.n > c.maximum.n)

\* a string parameter with minLength 10 and maxLength 5
C12_Witness ==
  /\ pc = "validated"
  /\ TheParameter.type = Str(T_STRING)
  /\ TheParameter.constraints.minLength = Num(10)
  /\ TheParameter.constraints.maxLength = Num(5)
  /\ ReportedAt(InParameter(1, 1), "Minimum length cannot be greater than maximum length")
  /\ ~ReportedAt(InParameter(1, 1), "Minimum cannot be greater than maximum")

\* C13: validateComplete reports a configuration as invalid whenever it holds
\* an array parameter whose minItems is greater than its maxItems.
C13_ArrayItemsConsistent ==
  (/\ pc = "validated"
   /\ TheParameter.type = Str(T_ARRAY)
   /\ IsNumber(TheParameter.constraints.minItems)
   /\ IsNumber(TheParameter.constraints.maxItems)
   /\ TheParameter.constraints.minItems.n > TheParameter.constraints.maxItems.n)
    => ~validation.isValid

----------------------------------------------------------------------------
(* The parameter names: three parameters in the first service and one in the
   second, every combination of name inputs
   (ParameterBuilder.updateParameterFromInputs) *)

ParameterNameValues ==
  {Str(CheckInDate), Str(Guests), Str(BadParamName), Str(<<>>),
   Str(Rep("a", PARAMETER_NAME_MAX_LENGTH + 1))}

ParameterNameInputs ==
  {Ed("parameter", "name", 1, j, v) : j \in 1..3, v \in ParameterNameValues}
  \cup {Ed("parameter", "name", 2, 1, v) : v \in ParameterNameValues}

\* the first service with a third parameter, entered under the name of the first
InitParameterNames ==
  /\ formState =
       FilledForm(<<FilledService(RoomBookingId, RoomBookingName, <<FilledStep>>,
                                  RoomBooking.parameters \o <<RoomBooking.parameters[1]>>),
                    SpaVisit>>)
  /\ pc = "edit"
  /\ applied = {}
  /\ validation = NoResult
  /\ payload = NoPayload
  /\ restored = <<>>
  /\ original = <<>>
  /\ pushed = FALSE
  /\ validatorErrors = <<>>
  /\ returned = <<>>
  /\ InitForm

NextParameterNames == FreeEdit(ParameterNameInputs) \/ ValidateComplete

SpecParameterNames == InitParameterNames /\ [][NextParameterNames]_vars

\* the positions in this.errors of the 'already used' errors labelled
\* Service i, Parameter j
DuplicateNameErrors(i, j) ==
  {h \in 1..Len(validation.errors) :
     /\ validation.errors[h].msg = "Parameter name is already used"
     /\ validation.errors[h].svc = i
     /\ validation.errors[h].kind = "Parameter"
     /\ validation.errors[h].sub = j}

\* exactly one duplicate error, naming the name, on every parameter whose name
\* an earlier parameter of the same service has, and none on any other
OneErrorPerLaterDuplicateName ==
  \A i \in 1..Len(original.services) :
    LET parameters == original.services[i].parameters
    IN  \A j \in 1..Len(parameters) :
          /\ Cardinality(DuplicateNameErrors(i, j)) =
               IF \E h \in 1..(j - 1) : parameters[h].name = parameters[j].name
               THEN 1 ELSE 0
          /\ \A h \in DuplicateNameErrors(i, j) :
               validation.errors[h].arg = parameters[j].name.s

\* C14 as stated: with pattern-valid names, each parameter whose name equals
\* that of an earlier parameter of the same service gets exactly one 'already
\* used' error, the first occurrence none, and a name used in two different
\* services gives no duplicate error.
C14_AsStated ==
  (/\ pc = "validated"
   /\ \A i \in 1..Len(original.services) :
        \A j \in 1..Len(original.services[i].parameters) :
          PARAMETER_NAME_PATTERN(original.services[i].parameters[j].name.s))
    => OneErrorPerLaterDuplicateName

\* C14, amended: the same with names that are pattern-valid and at most 100
\* characters long.
C14_ParameterNamesPerService ==
  (/\ pc = "validated"
   /\ \A i \in 1..Len(original.services) :
        \A j \in 1..Len(original.services[i].parameters) :
          /\ PARAMETER_NAME_PATTERN(original.services[i].parameters[j].name.s)
          /\ Len(original.services[i].parameters[j].name.s) <= PARAMETER_NAME_MAX_LENGTH)
    => OneErrorPerLaterDuplicateName

\* one name on all four parameters: the second and third of service 1 are
\* reported, the parameter of service 2 is not
C14_Witness ==
  /\ pc = "validated"
  /\ \A j \in 1..3 : original.services[1].parameters[j].name = Str(Guests)
  /\ original.services[2].parameters[1].name = Str(Guests)
  /\ DuplicateNameErrors(1, 1) = {}
  /\ Cardinality(DuplicateNameErrors(1, 2)) = 1
  /\ Cardinality(DuplicateNameErrors(1, 3)) = 1
  /\ DuplicateNameErrors(2, 1) = {}

----------------------------------------------------------------------------
(* The bounded numbers of a service: the cancellation penalty and the timeout
   and retry attempts of a workflow step, below, at and above their bounds *)

BoundInputs ==
  {Ed("cancellationPolicy", "penaltyPercentage", 1, 0, v) :
     v \in {Undefined, Num(-1), Num(0), Num(50), Num(100), Num(101), Num(150)}}
  \cup {Ed("step", "timeoutMinutes", 1, 1, v) :
          v \in {Undefined, Num(-5), Num(0), Num(1), Num(1440), Num(1441)}}
  \cup {Ed("step", "retryAttempts", 1, 1, v) :
          v \in {Undefined, Num(-1), Num(0), Num(10), Num(11)}}

NextBounds == FreeEdit(BoundInputs) \/ ValidateComplete \/ TransformToAPIFormat

SpecBounds == Init /\ [][NextBounds]_vars

\* C15: validateComplete reports 'Penalty percentage must be between 0 and
\* 100' for a service exactly when its penaltyPercentage is given and lies
\* outside [0,100]: 150 is reported, 0 and 100 are accepted.
C15_PenaltyBounds ==
  pc = "validated" =>
    LET penalty == original.services[1].cancellationPolicy.penaltyPercentage
    IN  ReportedAt(InService(1), "Penalty percentage must be between 0 and 100")
          <=> (IsNumber(penalty) /\ (penalty.n < 0 \/ penalty.n > 100))

\* the penalty 150, reported
C15_Witness ==
  /\ pc = "validated"
  /\ original.services[1].cancellationPolicy.penaltyPercentage = Num(150)
  /\ ReportedAt(InService(1), "Penalty percentage must be between 0 and 100")
  /\ ~validation.isValid

\* C16: for every workflow step, a given timeoutMinutes outside [1,1440] (0
\* included) gets the timeout error and a given retryAttempts outside [0,10]
\* gets the retry error: no given out-of-range value passes without a message.
C16_StepBounds ==
  pc = "validated" =>
    \A i \in 1..Len(original.services) :
      \A j \in 1..Len(original.services[i].workflow.steps) :
        LET step == original.services[i].workflow.steps[j]
        IN  /\ (IsNumber(step.timeoutMinutes)
                  /\ (step.timeoutMinutes.n < 1 \/ step.timeoutMinutes.n > 1440))
               => ReportedAt(InStep(i, j), "Timeout must be between 1 and 1440 minutes")
            /\ (IsNumber(step.retryAttempts)
                  /\ (step.retryAttempts.n < 0 \/ step.retryAttempts.n > 10))
               => ReportedAt(InStep(i, j), "Retry attempts must be between 0 and 10")

----------------------------------------------------------------------------
(* Further claims checked on the whole pipeline (Spec) *)

\* C17: validateComplete reports 'Please select a valid country' for every
\* location whose country is not one of the codes of the COUNTRIES table, and
\* reports no country error for a code of the table.
C17_CountryRecognized ==
  pc = "validated" =>
    (Reported("Please select a valid country")
       <=> ~(original.location.country.k = "string"
               /\ original.location.country.s \in COUNTRIES))


----------------------------------------------------------------------------
(* The configuration of the specification's valid scenario: one service
   'room_booking' with one required string parameter 'check_in_date' without
   constraints, paid by credit card, with a flexible cancellation policy
   described in exactly ten characters and the default integration *)

ValidScenario ==
  FilledForm(<<FilledService(RoomBookingId, RoomBookingName, <<>>,
                             <<FilledParameter(CheckInDate, DateOfArrival)>>)>>)

\* inputs that keep every rule the validation algorithm is described by:
\* optional fields left empty or filled validly, bounded numbers at the ends
\* of their ranges, a business name that is not the empty string, a parameter
\* name that matches the name pattern and is the only one of its service
ScenarioInputs ==
  {Ed("businessInfo", "website", 0, 0, Str(s)) : s \in {<<>>, UrlSite}}
  \cup {Ed("businessInfo", "capacity", 0, 0, v) : v \in {Null, Num(1)}}
  \cup {Ed("businessInfo", "name", 0, 0, Str(s)) : s \in {ZionAdventureLodge, <<" ">>}}
  \cup {Ed("contact", "phone", 0, 0, Str(s)) : s \in {<<>>, Phone11, PhoneUK}}
  \cup {Ed("contact", "secondaryEmail", 0, 0, Str(s)) : s \in {<<>>, Mail}}
  \cup {Ed("parameter", "name", 1, 1, Str(s)) :
          s \in {CheckInDate, Rep("a", PARAMETER_NAME_MAX_LENGTH + 1)}}
  \cup {Ed("cancellationPolicy", "penaltyPercentage", 1, 0, v) : v \in {Num(0), Num(100)}}
  \cup {Ed("cancellationPolicy", "freeUntilHours", 1, 0, v) : v \in {Num(0), Num(168)}}
  \cup {Ed("cancellationPolicy", "description", 1, 0, Str(s)) : s \in {TenChars, BookARoom}}

InitScenario ==
  /\ formState = ValidScenario
  /\ pc = "edit"
  /\ applied = {}
  /\ validation = NoResult
  /\ payload = NoPayload
  /\ restored = <<>>
  /\ original = <<>>
  /\ pushed = FALSE
  /\ validatorErrors = <<>>
  /\ returned = <<>>
  /\ InitForm

NextScenario == FreeEdit(ScenarioInputs) \/ ValidateComplete

SpecScenario == InitScenario /\ [][NextScenario]_vars

----------------------------------------------------------------------------
(* The AP2 block: the checkbox that enables it, the checkbox of the
   verification and the mandate expiry, which the form reads with parseInt *)

AP2Inputs ==
  {Ed("ap2", "enabled", 0, 0, Bool(b)) : b \in BOOLEAN}
  \cup {Ed("ap2", "verificationRequired", 0, 0, v) : v \in {Undefined, Bool(TRUE), Bool(FALSE)}}
  \cup {Ed("ap2", "mandateExpiryHours", 0, 0, v) :
          v \in {Undefined, NaN, Num(-1), Num(0), Num(1), Num(24), Num(48), Num(168), Num(169)}}

NextAP2 == FreeEdit(AP2Inputs) \/ ValidateComplete \/ TransformToAPIFormat

SpecAP2 == Init /\ [][NextAP2]_vars

\* C19 as stated: the wire payload has no ap2_config when ap2.enabled is false,
\* and when it is true ap2_config is an object with enabled = true and the
\* source's mandateExpiryHours and verificationRequired.
C19_AsStated ==
  Transformed =>
    LET ap2 == original.ap2
        ap2_config == payload.v.ap2_config
    IN  IF ap2.enabled = Bool(FALSE)
        THEN ap2_config.k = "undefined"
        ELSE /\ ap2_config.k = "object"
             /\ ap2_config.enabled = Bool(TRUE)
             /\ ap2_config.mandate_expiry_hours = ap2.mandateExpiryHours
             /\ ap2_config.verification_required = ap2.verificationRequired

\* C19: the wire payload has no ap2_config when ap2.enabled is false (never an
\* object with enabled false); when ap2.enabled is true ap2_config is an
\* object with enabled = true, with the source's mandateExpiryHours when that
\* is a number other than 0 and 24 otherwise, and with verification_required
\* true unless the source's verificationRequired is false.
C19_AP2Omission ==
  Transformed =>
    LET ap2 == original.ap2
        ap2_config == payload.v.ap2_config
    IN  IF ap2.enabled = Bool(FALSE)
        THEN ap2_config.k = "undefined"
        ELSE /\ ap2_config.k = "object"
             /\ ap2_config.enabled = Bool(TRUE)
             /\ ap2_config.mandate_expiry_hours =
                  (IF IsNumber(ap2.mandateExpiryHours) /\ ap2.mandateExpiryHours.n # 0
                   THEN ap2.mandateExpiryHours ELSE Num(24))
             /\ ap2_config.verification_required =
                  Bool(ap2.verificationRequired # Bool(FALSE))

\* a disabled AP2 with a mandate expiry of 48 hours, left out of the payload
C19_Witness ==
  /\ Transformed
  /\ original.ap2.enabled = Bool(FALSE)
  /\ original.ap2.mandateExpiryHours = Num(48)
  /\ payload.v.ap2_config.k = "undefined"

\* C20: with ap2.enabled false validateComplete reports no AP2 error whatever
\* mandateExpiryHours holds; with ap2.enabled true it reports 'AP2 mandate
\* expiry must be between 1 and 168 hours' exactly when mandateExpiryHours is
\* a number outside [1,168].
C20_AP2Gated ==
  pc = "validated" =>
    LET ap2 == original.ap2
    IN  Reported("AP2 mandate expiry must be between 1 and 168 hours")
          <=> /\ ap2.enabled = Bool(TRUE)
              /\ IsNumber(ap2.mandateExpiryHours)
              /\ (ap2.mandateExpiryHours.n < 1 \/ ap2.mandateExpiryHours.n > 168)

\* a disabled AP2 with a mandate expiry of 169 hours, accepted
C20_Witness ==
  /\ pc = "validated"
  /\ original.ap2.enabled = Bool(FALSE)
  /\ original.ap2.mandateExpiryHours = Num(169)
  /\ ~Reported("AP2 mandate expiry must be between 1 and 168 hours")
  /\ validation.isValid


----------------------------------------------------------------------------
(* The slug of a business name: transformIntegration computes it from
   businessInfo.name for every payload *)

ZionSlug ==
  <<"z", "i", "o", "n", "-", "a", "d", "v", "e", "n", "t", "u", "r", "e", "-",
    "l", "o", "d", "g", "e">>

\* the pieces business names are put together from: letters of both cases, a
\* digit, characters outside [a-z0-9] and a run as long as the slug may get
NamePieces ==
  {<<>>, <<"Z">>, <<"q">>, <<"9">>, <<"!">>, <<" ">>, <<"-">>, Rep("a", 49)}

BusinessNames ==
  {a \o b \o c : a \in NamePieces, b \in NamePieces, c \in NamePieces}
    \cup {ZionAdventureLodge}

BusinessNameInputs == {Ed("businessInfo", "name", 0, 0, Str(s)) : s \in BusinessNames}

\* transformer.sanitizeBusinessName(formState.businessInfo.name)
SanitizeBusinessName ==
  /\ pc = "edit"
  /\ returned' = Append(returned, Returned("sanitizeBusinessName", formState.businessInfo.name,
                                            Str(sanitizeBusinessName(formState.businessInfo.name))))
  /\ pc' = "sanitized"
  /\ UNCHANGED <<formState, applied, validation, payload, restored, original, pushed,
                 validatorErrors>>
  /\ UNCHANGED formVars

NextSlug == FreeEdit(BusinessNameInputs) \/ SanitizeBusinessName

SpecSlug == Init /\ [][NextSlug]_vars

\* the letters and digits of a name, lower-cased, in their order
AlnumLowered(s) ==
  LET lowered == [i \in 1..Len(s) |->
                    IF s[i] \in Upper THEN LowerSeq[CHOOSE h \in 1..26 : UpperSeq[h] = s[i]]
                    ELSE s[i]]
  IN  SelectSeq(lowered, LAMBDA ch : ch \in Lower \cup Digits)

\* C21: for every non-empty business name the slug sanitizeBusinessName
\* returns holds only characters of [a-z0-9-], has no two adjacent hyphens,
\* does not start with a hyphen and is at most 50 characters long; without
\* its hyphens it is a prefix of the name's lower-cased letters and digits;
\* 'Zion Adventure Lodge!' gives 'zion-adventure-lodge'.
C21_Slug ==
  \A h \in 1..Len(returned) :
    (returned[h].call = "sanitizeBusinessName" /\ returned[h].on.s # <<>>) =>
      LET slug == returned[h].result.s
          bare == SelectSeq(slug, LAMBDA ch : ch # "-")
      IN  /\ AllIn(slug, Lower \cup Digits \cup {"-"})
          /\ \A i \in 1..(Len(slug) - 1) : ~(slug[i] = "-" /\ slug[i + 1] = "-")
          /\ slug # <<>> => slug[1] # "-"
          /\ Len(slug) <= 50
          /\ bare = SubSeq(AlnumLowered(returned[h].on.s), 1, Len(bare))
          /\ returned[h].on.s = ZionAdventureLodge => slug = ZionSlug

\* the slug of 'Zion Adventure Lodge!'
C21_Witness ==
  /\ pc = "sanitized"
  /\ returned = <<Returned("sanitizeBusinessName", Str(ZionAdventureLodge), Str(ZionSlug))>>


----------------------------------------------------------------------------
(* The pricing of a parameter: none (the checkbox unchecked), or an object
   with the fields whose inputs are filled in
   (ParameterBuilder.updateParameterPricing) *)

Euro == <<"E", "U", "R">>

PricingValues ==
  {NoPricing, [NoPricing EXCEPT !.k = "undefined"]}
  \cup {[k |-> "object", baseRate |-> b, currency |-> c, taxRate |-> t, serviceFee |-> f,
         minimumCharge |-> Undefined] :
          b \in {Undefined, Num(0), Num(10)},
          c \in {Undefined, Str(<<>>), Str(DEFAULT_CURRENCY), Str(Euro)},
          t \in {Undefined, Num(0), Num(1)},
          f \in {Undefined, Num(0), Num(2)}}

PricingInputs == {Ed("parameter", "pricing", 1, 1, v) : v \in PricingValues}

NextPricing == FreeEdit(PricingInputs) \/ ValidateComplete \/ TransformToAPIFormat

SpecPricing == Init /\ [][NextPricing]_vars

\* C22: a wire parameter carries a pricing object exactly when the source
\* parameter's pricing is neither null nor undefined, and in that object
\* base_rate, currency, tax_rate and service_fee are the source values when
\* present and 0, 'USD', 0 and 0 when absent (an empty currency is absent).
C22_PricingTransform ==
  Transformed =>
    \A i \in 1..Len(original.services) :
      \A j \in 1..Len(original.services[i].parameters) :
        LET pricing == original.services[i].parameters[j].pricing
            wire == WireParameter(i, j).pricing
        IN  /\ wire.k = "object" <=> ~Nullish(pricing)
            /\ wire.k = "object" =>
                 /\ PresentOrDefault(pricing.baseRate, wire.base_rate, 0)
                 /\ wire.currency = (IF Blank(pricing.currency) THEN Str(DEFAULT_CURRENCY)
                                     ELSE pricing.currency)
                 /\ PresentOrDefault(pricing.taxRate, wire.tax_rate, 0)
                 /\ PresentOrDefault(pricing.serviceFee, wire.service_fee, 0)

\* a pricing in euros with only the tax rate given, and a parameter without
\* pricing beside it
C22_Witness ==
  /\ Transformed
  /\ original.services[1].parameters[1].pricing =
       [k |-> "object", baseRate |-> Undefined, currency |-> Str(Euro), taxRate |-> Num(1),
        serviceFee |-> Undefined, minimumCharge |-> Undefined]
  /\ WireParameter(1, 1).pricing =
       [k |-> "object", base_rate |-> Num(0), currency |-> Str(Euro), tax_rate |-> Num(1),
        service_fee |-> Num(0), minimum_charge |-> Undefined]
  /\ original.services[1].parameters[2].pricing.k = "null"
  /\ WireParameter(1, 2).pricing.k = "undefined"


----------------------------------------------------------------------------
(* Further claims checked on the integration block (SpecIntegration) *)

\* what C23 states for one of the three endpoints: wire is the endpoint of the
\* payload, back the block transformFromAPIFormat returns, url its endpoint
DerivedFromEndpoint(wire, back, url) ==
  /\ back.autoGenerate = Bool(TRUE) <=> ~Truthy(wire)
  /\ back.autoGenerate \in {Bool(TRUE), Bool(FALSE)}
  /\ back.autoGenerate = Bool(FALSE) => url = wire

\* C23: transformFromAPIFormat sets the autoGenerate flag of MCP, A2A and
\* webhooks to true exactly when the payload carries no endpoint for it and to
\* false, with the endpoint copied, when it does; for a configuration that
\* validateComplete accepts the three flags after the round trip are the
\* flags of the configuration.
C23_AutoGenerateDerived ==
  pc = "restored" =>
    LET wire == payload.v.integration
        back == restored.integration
    IN  /\ DerivedFromEndpoint(wire.mcp_endpoint, back.mcp, back.mcp.endpoint)
        /\ DerivedFromEndpoint(wire.a2a_discovery_url, back.a2a, back.a2a.discoveryUrl)
        /\ DerivedFromEndpoint(wire.webhook_endpoint, back.webhooks, back.webhooks.endpoint)
        /\ validation.isValid =>
             \A sub \in {"mcp", "a2a", "webhooks"} :
               back[sub].autoGenerate = original.integration[sub].autoGenerate

\* an accepted configuration with its own MCP endpoint, an auto-generated A2A
\* discovery whose input still holds a URL, and auto-generated webhooks
C23_Witness ==
  /\ pc = "restored"
  /\ validation.isValid
  /\ original.integration.mcp.autoGenerate = Bool(FALSE)
  /\ original.integration.mcp.endpoint = Str(UrlMcp)
  /\ restored.integration.mcp = [k |-> "object", autoGenerate |-> Bool(FALSE),
                                 endpoint |-> Str(UrlMcp)]
  /\ original.integration.a2a.autoGenerate = Bool(TRUE)
  /\ original.integration.a2a.discoveryUrl = Str(UrlAgent)
  /\ restored.integration.a2a.autoGenerate = Bool(TRUE)
  /\ restored.integration.webhooks.autoGenerate = Bool(TRUE)


----------------------------------------------------------------------------
(* BAISOnboardingForm.handleSubmit.  JavaScript runs a handler to its first
   await without interruption, so a run is one step from the guard to the
   fetch of submitToAPI, and one more step when the fetch settles.  The form
   stays editable while a request is outstanding. *)

\* the number of submit events
MaxSubmits == 3

\* handleSubmit had it started whatever isSubmitting holds
submitGuardOff(flag) == FALSE

\* if (this.isSubmitting) return
submitGuard(flag) == flag

\* handleSubmit had it gone on with a configuration the validator rejects
stopsNever(validationResult) == FALSE

\* if (!validationResult.isValid) { this.showValidationErrors(...); return }
stopsOnErrors(validationResult) == ~validationResult.isValid

\* handleSubmit had it released the guard on the success path only
isSubmittingUnlessSucceeded(succeeded) == ~succeeded

\* finally { this.isSubmitting = false }: isSubmitting once the try block is
\* left, whether registration succeeded or an error was caught
finallyIsSubmitting(succeeded) == FALSE

\* one run of handleSubmit: the form state it found, isSubmitting as it
\* started, what validateComplete returned to it, whether it called the
\* transformer and submitToAPI, isSubmitting as it reached its await or
\* returned, and how it ended
Run(on, started, validationResult, transformed, submitted, flag, result) ==
  [on |-> on, started |-> started, validationResult |-> validationResult,
   transformed |-> transformed, submitted |-> submitted, isSubmitting |-> flag,
   result |-> result]

\* a configuration the validator rejects, one it accepts and the transformer
\* sends, and one it accepts and the transformer throws on
SubmitInputs ==
  {Ed("businessInfo", "name", 0, 0, Str(s)) : s \in {<<>>, ZionAdventureLodge}}
  \cup {Ed("formState", "integration", 0, 0, v) : v \in {NoIntegration, InitialForm.integration}}

\* a submit event: handleSubmit up to its return or to the fetch of submitToAPI
HandleSubmit ==
  /\ Len(runs) < MaxSubmits
  /\ LET validationResult == validateCompleteOn(validatorErrors, formState)
         threw == transformToAPIFormatThrows(formState)
     IN  IF submitGuard(isSubmitting)
         THEN /\ runs' = Append(runs, Run(formState, isSubmitting, NoResult, FALSE, FALSE,
                                          isSubmitting, "returned"))
              /\ UNCHANGED <<validatorErrors, isSubmitting, outstanding>>
         ELSE IF stopsOnErrors(validationResult)
         THEN /\ runs' = Append(runs, Run(formState, isSubmitting, validationResult, FALSE, FALSE,
                                          isSubmitting, "errors shown"))
              /\ validatorErrors' = validationResult.errors
              /\ UNCHANGED <<isSubmitting, outstanding>>
         ELSE IF threw
         THEN /\ isSubmitting' = finallyIsSubmitting(FALSE)
              /\ runs' = Append(runs, Run(formState, isSubmitting, validationResult, TRUE, FALSE,
                                          isSubmitting', "threw"))
              /\ validatorErrors' = validationResult.errors
              /\ UNCHANGED outstanding
         ELSE /\ isSubmitting' = TRUE
              /\ runs' = Append(runs, Run(formState, isSubmitting, validationResult, TRUE, TRUE,
                                          TRUE, "pending"))
              /\ outstanding' = Append(outstanding, [run |-> Len(runs) + 1,
                                                     apiData |-> transformToAPIFormat(formState)])
              /\ validatorErrors' = validationResult.errors
  /\ UNCHANGED <<formState, pc, applied, validation, payload, restored, original, pushed,
                 returned, serviceConfigurators>>

\* the fetch of a submitToAPI call settles: the server registered the
\* business, answered with an error, or the request failed; submitToAPI
\* returns {success: ...} and handleSubmit runs to its end
Settle ==
  /\ \E h \in 1..Len(outstanding) :
       \E result \in {"registered", "HTTP error", "request failed"} :
         /\ runs' = [runs EXCEPT ![outstanding[h].run].result = result]
         /\ outstanding' = [g \in 1..(Len(outstanding) - 1) |->
                              IF g < h THEN outstanding[g] ELSE outstanding[g + 1]]
         /\ isSubmitting' = finallyIsSubmitting(result = "registered")
  /\ UNCHANGED <<formState, pc, applied, validation, payload, restored, original, pushed,
                 validatorErrors, returned, serviceConfigurators>>

NextSubmit == FreeEdit(SubmitInputs) \/ HandleSubmit \/ Settle

\* a fetch settles or fails in the end
SpecSubmit == Init /\ [][NextSubmit]_vars /\ WF_vars(Settle)

\* C24: handleSubmit calls submitToAPI only in a run in which validateComplete
\* returned isValid = true for the form state it found, and hands it
\* transformToAPIFormat of that state; in a run in which validateComplete
\* reported an error neither the transformer nor submitToAPI is called and
\* isSubmitting stays false.
C24_SubmitAfterValidation ==
  /\ \A h \in 1..Len(runs) :
       LET run == runs[h]
       IN  /\ run.submitted =>
                /\ run.validationResult = validateComplete(run.on)
                /\ run.validationResult.isValid
                /\ run.transformed
           /\ (~run.started /\ ~validateComplete(run.on).isValid) =>
                /\ ~run.transformed
                /\ ~run.submitted
                /\ ~run.isSubmitting
                /\ run.validationResult = validateComplete(run.on)
  /\ \A g \in 1..Len(outstanding) :
       /\ runs[outstanding[g].run].submitted
       /\ outstanding[g].apiData = transformToAPIFormat(runs[outstanding[g].run].on)

\* a rejected configuration, then the same form corrected and submitted
C24_Witness ==
  /\ Len(runs) >= 2
  /\ runs[1].result = "errors shown"
  /\ ~runs[1].transformed
  /\ Len(runs[1].validationResult.errors) > 0
  /\ runs[2].submitted
  /\ Len(outstanding) = 1
  /\ outstanding[1].apiData = transformToAPIFormat(InitialForm)
  /\ isSubmitting

\* C28: a handleSubmit that starts while isSubmitting is true returns without
\* validating, transforming or calling submitToAPI, and there is never more
\* than one submitToAPI call outstanding.
C28_OneSubmissionInFlight ==
  /\ Len(outstanding) <= 1
  /\ \A h \in 1..Len(runs) :
       runs[h].started =>
         /\ runs[h].validationResult = NoResult
         /\ ~runs[h].transformed
         /\ ~runs[h].submitted
         /\ runs[h].result = "returned"

\* a second submit event while the first request is outstanding
C28_Witness ==
  /\ Len(runs) >= 2
  /\ runs[1].submitted
  /\ runs[1].result = "pending"
  /\ runs[2].started
  /\ runs[2].result = "returned"
  /\ Len(outstanding) = 1

\* C29: isSubmitting is true only while a submitToAPI call is outstanding (a
\* run whose transform throws leaves it false), and whenever it is true it
\* becomes false again once the call settles, whether the request fails, the
\* server answers with an error or registration succeeds.
C29_GuardReleased ==
  /\ [](isSubmitting => outstanding # <<>>)
  /\ (isSubmitting ~> ~isSubmitting)

\* a run whose transform threw and a run whose request the server refused,
\* both behind, and the guard released
C29_Witness ==
  /\ \E h \in 1..Len(runs) : runs[h].result = "threw" /\ ~runs[h].isSubmitting
  /\ \E h \in 1..Len(runs) : runs[h].result = "HTTP error" /\ runs[h].isSubmitting
  /\ outstanding = <<>>
  /\ ~isSubmitting


----------------------------------------------------------------------------
(* The services of the form and their configurators: addService,
   removeService behind the remove buttons the configurators render, and the
   inputs of a configurator, which write the service back under the index the
   configurator was made with *)

createEmptyService ==
  [name |-> Str(<<>>), id |-> Str(<<>>), description |-> Str(<<>>), category |-> Str(<<>>),
   workflow |-> [k |-> "object",
                 pattern |-> Str(<<"b", "o", "o", "k", "i", "n", "g", "_", "c", "o", "n", "f",
                                   "i", "r", "m", "a", "t", "i", "o", "n", "_", "p", "a", "y",
                                   "m", "e", "n", "t">>),
                 steps |-> <<>>],
   parameters |-> <<>>,
   availability |-> [k |-> "object", realTime |-> Bool(TRUE),
                     cacheTimeoutSeconds |-> Num(300), advanceBookingDays |-> Num(365),
                     endpoint |-> Str(<<>>)],
   cancellationPolicy |-> [k |-> "object",
                           type |-> Str(<<"f", "l", "e", "x", "i", "b", "l", "e">>),
                           freeUntilHours |-> Num(24), penaltyPercentage |-> Num(0),
                           description |-> Str(<<>>)],
   payment |-> [k |-> "object", methods |-> Arr(<<CREDIT_CARD>>), timing |-> Str(AT_BOOKING),
                depositRequired |-> Bool(FALSE), depositPercentage |-> Num(0)],
   policies |-> [k |-> "object", modificationFee |-> Num(0), noShowPenalty |-> Num(0)]]

\* array.splice(index, 1)
splice(array, index) ==
  IF index + 1 > Len(array) THEN array
  ELSE [i \in 1..(Len(array) - 1) |-> IF i <= index THEN array[i] ELSE array[i + 1]]

\* array[index] = value, for index <= array.length
assign(array, index, value) ==
  IF index + 1 <= Len(array) THEN [array EXCEPT ![index + 1] = value]
  ELSE Append(array, value)

\* this.serviceConfigurators[index] = new ServiceConfigurator(index, ...)
addServiceConfigurator(configurators, index) ==
  assign(configurators, index, [serviceIndex |-> index])

\* removeService had it left the configurators as the splice left them
rerenderNothing(services, configurators) == configurators

\* removeService: this.serviceConfigurators = [] and one addServiceConfigurator
\* per service that is left
rerender(services, configurators) == initializeServiceConfigurators(services)

InitServices ==
  /\ formState = FilledForm(<<createEmptyService>>)
  /\ pc = "edit"
  /\ applied = {}
  /\ validation = NoResult
  /\ payload = NoPayload
  /\ restored = <<>>
  /\ original = <<>>
  /\ pushed = FALSE
  /\ validatorErrors = <<>>
  /\ returned = <<>>
  /\ InitForm

\* the click on 'Add Service'
AddService ==
  /\ IF Len(formState.services) >= MAX_SERVICES
     THEN UNCHANGED <<formState, serviceConfigurators>>
     ELSE /\ formState' = [formState EXCEPT !.services = Append(@, createEmptyService)]
          /\ serviceConfigurators' =
               addServiceConfigurator(serviceConfigurators, Len(formState.services))
  /\ UNCHANGED <<pc, applied, validation, payload, restored, original, pushed, validatorErrors,
                 returned, isSubmitting, outstanding, runs>>

\* the click on the 'Remove Service' button of a configurator, which only a
\* configurator with serviceIndex > 0 renders: this.onRemove(this.serviceIndex)
RemoveService ==
  /\ \E p \in 1..Len(serviceConfigurators) :
       LET index == serviceConfigurators[p].serviceIndex
       IN  /\ index > 0
           /\ formState' = [formState EXCEPT !.services = splice(@, index)]
           /\ serviceConfigurators' =
                rerender(formState'.services, splice(serviceConfigurators, index))
  /\ UNCHANGED <<pc, applied, validation, payload, restored, original, pushed, validatorErrors,
                 returned, isSubmitting, outstanding, runs>>

\* the name input of the third configurator: this.service.name = value, then
\* onUpdate(this.serviceIndex, this.service)
ConfiguratorInput ==
  /\ Len(serviceConfigurators) >= 3
  /\ \E name \in {RoomBookingName, SpaName} :
       LET index == serviceConfigurators[3].serviceIndex
       IN  /\ index + 1 <= Len(formState.services)
           /\ formState' = [formState EXCEPT !.services[index + 1].name = Str(name)]
  /\ UNCHANGED <<pc, applied, validation, payload, restored, original, pushed, validatorErrors,
                 returned, isSubmitting, outstanding, runs, serviceConfigurators>>

NextServices == AddService \/ RemoveService \/ ConfiguratorInput

SpecServices == InitServices /\ [][NextServices]_vars

\* C25: starting from one service, after any sequence of addService calls and
\* of removeService calls made through the rendered remove buttons,
\* formState.services has between 1 and 20 entries, serviceConfigurators has
\* the same length, and the configurator at position i is the one of service
\* index i.
C25_ServiceCount ==
  /\ Len(formState.services) >= 1
  /\ Len(formState.services) <= MAX_SERVICES
  /\ Len(serviceConfigurators) = Len(formState.services)
  /\ \A i \in 1..Len(serviceConfigurators) : serviceConfigurators[i].serviceIndex = i - 1

\* twenty services, the second of which was named as the third before a
\* service in front of it was removed
C25_Witness ==
  /\ Len(formState.services) = MAX_SERVICES
  /\ Len(serviceConfigurators) = MAX_SERVICES
  /\ serviceConfigurators[MAX_SERVICES].serviceIndex = MAX_SERVICES - 1
  /\ formState.services[2].name = Str(SpaName)
  /\ formState.services[1].name = Str(<<>>)


----------------------------------------------------------------------------
(* Further claims checked on the edited form (SpecValidate) *)

\* the messages each section of a configuration produces, in the order
\* business identity, location, contact, services, integration, AP2
SectionMessages(fs) ==
  <<Messages(validateBusinessInfo(fs.businessInfo)),
    Messages(validateLocation(fs.location)),
    Messages(validateContact(fs.contact)),
    Messages(validateServices(fs.services)),
    Messages(validateIntegration(fs.integration)),
    Messages(validateAP2Config(fs.ap2))>>

\* the messages each part of service i produces, in the order basics,
\* workflow, parameters, availability, cancellation, payment, policies
ServiceSectionMessages(services, i) ==
  <<Messages(validateServiceBasics(services[i], InService(i), serviceIdsAfter(services, i - 1))),
    Messages(validateWorkflow(services[i].workflow, i)),
    Messages(validateParameters(services[i].parameters, i)),
    Messages(validateAvailability(services[i].availability, InService(i))),
    Messages(validateCancellationPolicy(services[i].cancellationPolicy, InService(i))),
    Messages(validatePaymentConfig(services[i].payment, InService(i))),
    Messages(validateServicePolicies(services[i].policies, InService(i)))>>

\* every message belongs to a section, and a message never stands before a
\* message of an earlier section
InSectionOrder(errors, sections) ==
  /\ \A h \in 1..Len(errors) : \E a \in 1..Len(sections) : errors[h] \in sections[a]
  /\ \A h \in 1..Len(errors) : \A g \in (h + 1)..Len(errors) :
       \E a \in 1..Len(sections) : \E b \in a..Len(sections) :
         errors[h] \in sections[a] /\ errors[g] \in sections[b]

\* C26: in the errors list of validateComplete the messages stand in the order
\* business identity, location, contact, services, integration, AP2; the
\* service messages stand in ascending service index, and those of one
\* service in the order basics, workflow, parameters, availability,
\* cancellation, payment, policies.
C26_SectionOrder ==
  pc = "validated" =>
    LET errors == validation.errors
        ofService(i) == SelectSeq(errors, LAMBDA e : e.svc = i)
    IN  /\ InSectionOrder(errors, SectionMessages(original))
        /\ \A h \in 1..Len(errors) : \A g \in (h + 1)..Len(errors) :
             (errors[h].svc > 0 /\ errors[g].svc > 0) => errors[h].svc <= errors[g].svc
        /\ \A i \in 1..Len(original.services) :
             InSectionOrder(ofService(i), ServiceSectionMessages(original.services, i))

\* a business-identity message before a message of the payment of service 1
C26_Witness ==
  /\ pc = "validated"
  /\ Len(validation.errors) = 2
  /\ validation.errors[1] \in Messages(validateBusinessInfo(original.businessInfo))
  /\ validation.errors[2] \in Messages(validatePaymentConfig(original.services[1].payment,
                                                              InService(1)))


----------------------------------------------------------------------------
(* Further claims checked on the whole pipeline (Spec), continued *)

\* C27: for every configuration on which validateComplete returns isValid =
\* true, validateComplete also returns isValid = true on
\* transformFromAPIFormat(transformToAPIFormat(c)).
C27_ValidityPreserved ==
  (pc = "restored" /\ validation.isValid) => validateComplete(restored).isValid


----------------------------------------------------------------------------
(* The parameters on the wire: the parameter names of InitParameterNames taken
   through validateComplete, transformToAPIFormat and transformFromAPIFormat *)

WireNameValues == {Str(CheckInDate), Str(Guests), Str(BadParamName), Str(ProtoKey)}

WireNameInputs ==
  {Ed("parameter", "name", 1, j, v) : j \in 1..3, v \in WireNameValues}
  \cup {Ed("parameter", "name", 2, 1, v) : v \in WireNameValues}

NextWireParameters ==
  \/ FreeEdit(WireNameInputs)
  \/ ValidateComplete
  \/ TransformToAPIFormat
  \/ TransformFromAPIFormat

SpecWireParameters == InitParameterNames /\ [][NextWireParameters]_vars

\* the names of a list of form parameters, in order
NamesOf(parameters) == [j \in 1..Len(parameters) |-> parameters[j].name.s]

\* C30: for every configuration that passes validateComplete, each service's
\* wire parameters map has exactly one entry per source parameter, keyed by
\* that parameter's name, and transformParametersFromAPI returns the same
\* number of parameters with the same names in the same order.
C30_NoParameterLost ==
  (Transformed /\ validation.isValid) =>
    \A i \in 1..Len(original.services) :
      LET names == NamesOf(original.services[i].parameters)
          wire == payload.v.services_config[i].parameters
      IN  /\ [j \in 1..Len(wire) |-> wire[j].name] = names
          /\ pc = "restored" => NamesOf(restored.services[i].parameters) = names

\* validated configurations none of whose parameters is named ProtoKey keep
\* every parameter, in order, on the wire and back
C30_OwnKeysKept ==
  (/\ Transformed
   /\ validation.isValid
   /\ \A i \in 1..Len(original.services) :
        \A j \in 1..Len(original.services[i].parameters) :
          original.services[i].parameters[j].name.s # ProtoKey) =>
    \A i \in 1..Len(original.services) :
      LET names == NamesOf(original.services[i].parameters)
          wire == payload.v.services_config[i].parameters
      IN  /\ [j \in 1..Len(wire) |-> wire[j].name] = names
          /\ pc = "restored" => NamesOf(restored.services[i].parameters) = names

====
